---- MODULE Spec2Model ----
(***************************************************************************)
(* A model of the deterministic analytics engine of backend/app:           *)
(* DatasetAnalyzer (column-role inference, canonicalisation, the analysis  *)
(* sections of analyze()) and the static analyzers it drives.              *)
(*                                                                         *)
(* Three specifications share the variables.                               *)
(*   Spec      a DatasetAnalyzer object constructed on a DataFrame: its    *)
(*             fields, _infer_columns() called on it, and analyze()        *)
(*             called on the fresh object, returning or raising.           *)
(*   SpecUnit  one call of one method on one input (fn, arg, out).         *)
(*   SpecRequest  one request to the /analyze handler of main.py: the      *)
(*             upload in arg, the analyzer it constructs, the response in  *)
(*             out.                                                        *)
(*                                                                         *)
(* Numbers: every cell value, time value and statistic is kept exact.      *)
(* Cell values are integers; a ratio is kept as numerator and denominator  *)
(* and a correlation coefficient r as the triple (Sxy, Sxx, Syy) with      *)
(* r = Sxy / sqrt(Sxx * Syy), so that every comparison the code makes      *)
(* (r = r', |r| > |r'|, ratio > 0.7, ...) is decided by integer            *)
(* arithmetic. IEEE-754 rounding is not modelled.                          *)
(*                                                                         *)
(* Columns have dtype int64, float64 or object; a cell is a number, NaN    *)
(* or a string. numpy's default argsort is taken to keep the row order of  *)
(* equal times. Left out of the returned document: p-values and Spearman   *)
(* coefficients, the standard deviation of the sampling intervals, the     *)
(* derivative summary, change points and phases (segment_phases is called  *)
(* on its own in SpecUnit), the per-batch metrics other than max_value and *)
(* integrated_value with their rankings and best batches, the outlier      *)
(* batches and variance analysis of the batch comparison                   *)
(* (detect_outlier_batches is called on its own in SpecUnit), cross-batch  *)
(* stability, the plotted points, and the body of an HTTP response.        *)
(***************************************************************************)
EXTENDS Integers, Sequences, FiniteSets, TLC

VARIABLES
    df,                 \* DatasetAnalyzer.df: the sequence of columns
    time_col,           \* DatasetAnalyzer.time_col (None or a column name)
    batch_col,          \* DatasetAnalyzer.batch_col (None or a column name)
    numeric_cols,       \* DatasetAnalyzer.numeric_cols (list of names)
    categorical_cols,   \* DatasetAnalyzer.categorical_cols (list of names)
    standardized_data,  \* DatasetAnalyzer.standardized_data (None or records)
    calls,              \* how many times _infer_columns has run on this object
    status,             \* "constructed", "inferred", "analyzed" or "failed";
                        \* of a request also "received" and "rejected"
    result,             \* what analyze() returned (None before, and when it raised)
    fn,                 \* unit specification: the method under call
    arg,                \* unit specification: its argument
    out                 \* unit specification: NotCalled, then Called(return value)

vars == <<df, time_col, batch_col, numeric_cols, categorical_cols,
          standardized_data, calls, status, result, fn, arg, out>>

-----------------------------------------------------------------------------
(* Python values *)

\* Python's None. Column names are non-empty strings, so "" is free to stand
\* for it; `not self.time_col` is then `time_col = None`.
None == ""

\* A cell of the table: a number, a missing value (NaN / None), or a string.
Num(n) == [k |-> "num", v |-> n, s |-> ""]
NaN == [k |-> "nan", v |-> 0, s |-> ""]
Str(t) == [k |-> "str", v |-> 0, s |-> t]

isna(c) == c.k = "nan"

-----------------------------------------------------------------------------
(* Generic sequence helpers *)

Range(f) == {f[i] : i \in DOMAIN f}

\* the sequence [i \in 1..n |-> e] as an explicit tuple
Tuple(f) == f \o <<>>

Min2(a, b) == IF a < b THEN a ELSE b
Max2(a, b) == IF a > b THEN a ELSE b
Abs(a) == IF a < 0 THEN -a ELSE a

RECURSIVE SumSeq(_)
SumSeq(s) == IF s = <<>> THEN 0 ELSE Head(s) + SumSeq(Tail(s))

\* the elements of s that satisfy Test, in order (a boolean mask applied)
SelectIdx(s, Test(_)) ==
    LET F[i \in 0..Len(s)] ==
            IF i = 0 THEN <<>>
            ELSE IF Test(i) THEN Append(F[i - 1], s[i]) ELSE F[i - 1]
    IN F[Len(s)]

\* the first occurrence of each value of s, in order of appearance
\* (pandas Series.unique(): NaN counts as a value)
Unique(s) ==
    SelectIdx(s, LAMBDA i : \A j \in 1..(i - 1) : s[j] # s[i])

\* numpy.diff
Diff(s) == Tuple([i \in 1..(Len(s) - 1) |-> s[i + 1] - s[i]])

\* the values in ascending order (np.sort, Series.sort_values)
RECURSIVE SortValues(_)
SortValues(values) ==
    IF values = <<>> THEN <<>>
    ELSE LET rest == SortValues(Tail(values))
             below == SelectSeq(rest, LAMBDA x : x < Head(values))
             above == SelectSeq(rest, LAMBDA x : x >= Head(values))
         IN below \o <<Head(values)>> \o above

-----------------------------------------------------------------------------
(* Strings: str.lower(), str.strip(), `kw in s` *)

UpperAlphabet == "ABCDEFGHIJKLMNOPQRSTUVWXYZ"
LowerAlphabet == "abcdefghijklmnopqrstuvwxyz"

LowerChar(c) ==
    IF \E i \in 1..26 : SubSeq(UpperAlphabet, i, i) = c
    THEN LET i == CHOOSE j \in 1..26 : SubSeq(UpperAlphabet, j, j) = c
         IN SubSeq(LowerAlphabet, i, i)
    ELSE c

RECURSIVE Lower(_)
Lower(s) ==
    IF Len(s) = 0 THEN ""
    ELSE LowerChar(SubSeq(s, 1, 1)) \o Lower(SubSeq(s, 2, Len(s)))

IsSpace(c) == c \in {" ", "\t", "\n", "\r"}

RECURSIVE Strip(_)
Strip(s) ==
    IF Len(s) = 0 THEN ""
    ELSE IF IsSpace(SubSeq(s, 1, 1)) THEN Strip(SubSeq(s, 2, Len(s)))
    ELSE IF IsSpace(SubSeq(s, Len(s), Len(s))) THEN Strip(SubSeq(s, 1, Len(s) - 1))
    ELSE s

\* Python's `kw in s` on strings: kw is a contiguous substring of s
Contains(kw, s) ==
    \E i \in 0..(Len(s) - Len(kw)) : SubSeq(s, i + 1, i + Len(kw)) = kw

time_keywords ==
    <<"time", "timestamp", "date", "hour", "minute", "t", "elapsed", "duration">>
batch_keywords ==
    <<"batch", "run", "experiment", "lot", "id", "sample", "replicate">>

-----------------------------------------------------------------------------
(* pandas: dtypes, to_numeric, str() *)

\* The numeric literals pd.to_numeric can parse are modelled by the decimal
\* forms of the integers of -LitMax..LitMax; every other string is coerced
\* to NaN.
LitMax == 30

ParsesAsNumber(s) == \E n \in -LitMax..LitMax : ToString(n) = s
ParseNumber(s) == CHOOSE n \in -LitMax..LitMax : ToString(n) = s

is_numeric_dtype(col) == col.dtype \in {"int64", "float64"}
is_float_dtype(col) == col.dtype = "float64"

to_numeric_cell(c) ==
    IF c.k = "num" THEN c
    ELSE IF c.k = "str" /\ ParsesAsNumber(c.s) THEN Num(ParseNumber(c.s))
    ELSE NaN

\* pd.to_numeric(series, errors='coerce')
to_numeric(col) ==
    LET vals == Tuple([i \in DOMAIN col.values |-> to_numeric_cell(col.values[i])])
    IN [col EXCEPT
          !.values = vals,
          !.dtype = IF col.dtype # "object" THEN col.dtype
                    ELSE IF \A i \in DOMAIN vals : ~isna(vals[i]) THEN "int64"
                    ELSE "float64"]

\* str(value) of a cell of a column of the given dtype
str(c, dtype) ==
    IF c.k = "str" THEN c.s
    ELSE IF c.k = "nan" THEN "nan"
    ELSE IF dtype = "float64" THEN ToString(c.v) \o ".0"
    ELSE ToString(c.v)

dropna(vals) == SelectIdx(vals, LAMBDA i : ~isna(vals[i]))

\* the numbers of a sequence of non-null numeric cells
Floats(vals) == Tuple([i \in DOMAIN vals |-> vals[i].v])

-----------------------------------------------------------------------------
(* DatasetAnalyzer: the object and _infer_columns *)

Names(d) == Tuple([i \in DOMAIN d |-> d[i].name])
Column(d, name) == d[CHOOSE i \in DOMAIN d : d[i].name = name]
NRows(d) == IF d = <<>> THEN 0 ELSE Len(d[1].values)

\* the first column of d, in file order, that satisfies P; None if there is none
FirstColumn(d, P(_)) ==
    IF \E i \in DOMAIN d : P(d[i])
    THEN d[CHOOSE i \in DOMAIN d : P(d[i]) /\ \A j \in 1..(i - 1) : ~P(d[j])].name
    ELSE None

HasKeyword(keywords, col_lower) ==
    \E k \in DOMAIN keywords : Contains(keywords[k], col_lower)

\* any(kw == col_lower or kw in col_lower for kw in time_keywords)
HasTimeKeyword(col_lower) ==
    \E k \in DOMAIN time_keywords :
        time_keywords[k] = col_lower \/ Contains(time_keywords[k], col_lower)

\* number of occurrences of value c in a column (value_counts()[c])
CountOf(vals, c) == Cardinality({i \in DOMAIN vals : vals[i] = c})

_is_monotonic_numeric(col) ==
    LET data == Floats(dropna(to_numeric(col).values))
        diffs == Diff(data)
    IN IF Len(data) < 2 THEN FALSE
       ELSE \* (diffs >= 0).mean() > 0.95
            100 * Cardinality({i \in DOMAIN diffs : diffs[i] >= 0}) > 95 * Len(diffs)

_is_batch_like(d, col) ==
    IF is_float_dtype(col) THEN FALSE
    ELSE LET present == {c \in Range(col.values) : ~isna(c)}
             unique_count == Cardinality(present)
             total_count == NRows(d)
         IN IF 10 * unique_count < total_count /\ unique_count > 1
            THEN \* value_counts().min() > 5
                 \A c \in present : CountOf(col.values, c) > 5
            ELSE FALSE

\* variant that consults the pattern before the names
InferBatch_pattern_first(a) ==
    LET by_pattern == IF a.batch_col = None
                      THEN FirstColumn(a.df, LAMBDA c : _is_batch_like(a.df, c))
                      ELSE a.batch_col
    IN IF by_pattern = None
       THEN FirstColumn(a.df, LAMBDA c :
                HasKeyword(batch_keywords, Strip(Lower(c.name))))
       ELSE by_pattern

\* lines 550-563: the batch column, by name and then by pattern
InferBatch(a) ==
    LET by_name == IF a.batch_col = None
                   THEN FirstColumn(a.df, LAMBDA c :
                            HasKeyword(batch_keywords, Strip(Lower(c.name))))
                   ELSE a.batch_col
    IN IF by_name = None
       THEN FirstColumn(a.df, LAMBDA c : _is_batch_like(a.df, c))
       ELSE by_name

\* lines 565-572: string columns become numeric when more than half parses
CoerceColumns(d, batch) ==
    Tuple([i \in DOMAIN d |->
        IF d[i].name = batch THEN d[i]
        ELSE IF ~is_numeric_dtype(d[i])
        THEN LET converted == to_numeric(d[i])
             IN IF 2 * Len(dropna(converted.values)) > NRows(d)
                THEN converted ELSE d[i]
        ELSE d[i]])

\* variant of the time loop that does not skip the batch column
InferTime_any_column(a, d, batch) ==
    IF a.time_col = None
    THEN FirstColumn(d, LAMBDA c :
             /\ HasTimeKeyword(Strip(Lower(c.name)))
             /\ (is_numeric_dtype(c) \/ _is_monotonic_numeric(c)))
    ELSE a.time_col

\* lines 574-583: the time column
InferTime(a, d, batch) ==
    IF a.time_col = None
    THEN FirstColumn(d, LAMBDA c :
             /\ c.name # batch
             /\ HasTimeKeyword(Strip(Lower(c.name)))
             /\ (is_numeric_dtype(c) \/ _is_monotonic_numeric(c)))
    ELSE a.time_col

\* variant of the last loop that classifies the time column as well
ClassifyRemaining_keep_time(a, d, time, batch) ==
    LET rest == SelectIdx(d, LAMBDA i : d[i].name # batch)
        nums == SelectIdx(rest, LAMBDA i : is_numeric_dtype(rest[i]))
        cats == SelectIdx(rest, LAMBDA i : ~is_numeric_dtype(rest[i]))
    IN [numeric_cols |-> a.numeric_cols \o Names(nums),
        categorical_cols |-> a.categorical_cols \o Names(cats)]

\* lines 585-592: the remaining columns are appended to the two lists
ClassifyRemaining(a, d, time, batch) ==
    LET rest == SelectIdx(d, LAMBDA i : d[i].name \notin {time, batch})
        nums == SelectIdx(rest, LAMBDA i : is_numeric_dtype(rest[i]))
        cats == SelectIdx(rest, LAMBDA i : ~is_numeric_dtype(rest[i]))
    IN [numeric_cols |-> a.numeric_cols \o Names(nums),
        categorical_cols |-> a.categorical_cols \o Names(cats)]

\* DatasetAnalyzer._infer_columns on the analyzer a (its five fields)
_infer_columns(a) ==
    LET batch == InferBatch(a)
        d == CoerceColumns(a.df, batch)
        time == InferTime(a, d, batch)
        lists == ClassifyRemaining(a, d, time, batch)
    IN [df |-> d, time_col |-> time, batch_col |-> batch,
        numeric_cols |-> lists.numeric_cols,
        categorical_cols |-> lists.categorical_cols]

\* DatasetAnalyzer.__init__
NewAnalyzer(d) ==
    [df |-> d, time_col |-> None, batch_col |-> None,
     numeric_cols |-> <<>>, categorical_cols |-> <<>>]

-----------------------------------------------------------------------------
(* Exact comparison of products of 32-bit integers *)

\* A natural number as its limbs in base 10000, least significant first, so
\* that products of statistics that exceed 32 bits are still compared exactly.
BigOf(n) == <<n % 10000, (n \div 10000) % 10000, n \div 100000000>>

Limb(A, i) == IF i \in DOMAIN A THEN A[i] ELSE 0

BigMul(A, B) ==
    LET n == Len(A) + Len(B)
        conv(k) == SumSeq(Tuple([i \in 1..k |-> Limb(A, i) * Limb(B, k + 1 - i)]))
        R[k \in 1..n] == conv(k) + (IF k = 1 THEN 0 ELSE R[k - 1] \div 10000)
    IN Tuple([k \in 1..n |-> R[k] % 10000])

BigLess(A, B) ==
    \E k \in 1..Max2(Len(A), Len(B)) :
        /\ Limb(A, k) < Limb(B, k)
        /\ \A j \in (k + 1)..Max2(Len(A), Len(B)) : Limb(A, j) = Limb(B, j)

\* a * b < c * d for a, b, c, d >= 0
ProdLess(a, b, c, d) ==
    BigLess(BigMul(BigOf(a), BigOf(b)), BigMul(BigOf(c), BigOf(d)))

\* a * a * b * c < d * d * e * f for non-negative arguments
Prod4Less(a, b, c, d, e, f) ==
    BigLess(BigMul(BigMul(BigOf(a), BigOf(a)), BigMul(BigOf(b), BigOf(c))),
            BigMul(BigMul(BigOf(d), BigOf(d)), BigMul(BigOf(e), BigOf(f))))

-----------------------------------------------------------------------------
(* Batches and partitions of the table *)

\* the `None` of `batches = [None]`: the single synthetic partition
AllRows == [k |-> "all", v |-> 0, s |-> ""]

\* self.df[self.batch_col].unique()
BatchValues(a) == Unique(Column(a.df, a.batch_col).values)

\* `[None] if self.batch_col is None else self.df[self.batch_col].unique()`
BatchPartitions(a) ==
    IF a.batch_col = None THEN <<AllRows>> ELSE BatchValues(a)

\* the row positions (1-based) of self.df[self.df[self.batch_col] == batch];
\* NaN == NaN is False, so a NaN batch selects no row
BatchRows(a, batch) ==
    LET n == NRows(a.df)
        all == Tuple([i \in 1..n |-> i])
    IN IF batch = AllRows THEN all
       ELSE LET bv == Column(a.df, a.batch_col).values
            IN SelectIdx(all, LAMBDA i : ~isna(batch) /\ bv[i] = batch)

BatchId(a, batch) ==
    IF batch = AllRows THEN "all"
    ELSE str(batch, Column(a.df, a.batch_col).dtype)

\* [f(x) for x in s]
MapSeq(s, f(_)) == Tuple([i \in DOMAIN s |-> f(s[i])])

\* concatenation of a sequence of sequences
RECURSIVE Flatten(_)
Flatten(ss) == IF ss = <<>> THEN <<>> ELSE Head(ss) \o Flatten(Tail(ss))

\* DatasetAnalyzer._standardize_data: one record per (row, numeric column)
\* of every batch partition; the row label idx is the 0-based RangeIndex
_standardize_data(a) ==
    LET RowRecords(batch, i) ==
            LET time_val == IF a.time_col # None
                            THEN Column(a.df, a.time_col).values[i]
                            ELSE Num(i - 1)
            IN MapSeq(a.numeric_cols, LAMBDA var :
                   [batch |-> BatchId(a, batch), time |-> time_val,
                    variable |-> var, value |-> Column(a.df, var).values[i]])
        BatchRecords(batch) ==
            Flatten(MapSeq(BatchRows(a, batch), LAMBDA i : RowRecords(batch, i)))
    IN Flatten(MapSeq(BatchPartitions(a), BatchRecords))

\* DatasetAnalyzer._get_overview (the duration block is left out)
_get_overview(a) ==
    LET batches == IF a.batch_col # None THEN BatchValues(a) ELSE <<>>
    IN [rows |-> NRows(a.df),
        columns |-> Len(a.df),
        time_column |-> a.time_col,
        batch_column |-> a.batch_col,
        batches |-> MapSeq(batches, LAMBDA b : BatchId(a, b)),
        batch_count |-> IF batches # <<>> THEN Len(batches) ELSE 1,
        is_multi_batch |-> Len(batches) > 1,
        numeric_variables |-> a.numeric_cols,
        categorical_variables |-> a.categorical_cols]

-----------------------------------------------------------------------------
(* DataQualityAnalyzer *)

\* a ratio num/den kept exact
Ratio(n, d) == [num |-> n, den |-> d]

SeqMax(s) == CHOOSE m \in Range(s) : \A x \in Range(s) : x <= m
SeqMin(s) == CHOOSE m \in Range(s) : \A x \in Range(s) : m <= x

\* n * sum(x^2) - sum(x)^2 = n * sum((x - mean)^2), the scaled sum of squares
SumSqDev(s) ==
    Len(s) * SumSeq(Tuple([i \in DOMAIN s |-> s[i] * s[i]])) - SumSeq(s) * SumSeq(s)

\* variant that counts the values present
compute_missing_percentage_of_present(series) ==
    Ratio(100 * Len(dropna(series)), Len(series))

\* series.isna().sum() / len(series) * 100, as the ratio 100 * nulls / len
compute_missing_percentage(series) ==
    Ratio(100 * (Len(series) - Len(dropna(series))), Len(series))

classify_signal_density(series, missing_pct) ==
    LET valid_count == Len(dropna(series))
        total_count == Len(series)
        non_null == Floats(dropna(series))
        zeros == Cardinality({i \in DOMAIN non_null : non_null[i] = 0})
    IN IF total_count = 0 THEN [type |-> "empty", density |-> Ratio(0, 1)]
       ELSE IF missing_pct.num > 70 * missing_pct.den
       THEN [type |-> "sparse", density |-> Ratio(valid_count, total_count),
             reason |-> "high_missing"]
       ELSE IF missing_pct.num > 30 * missing_pct.den
       THEN [type |-> "intermittent", density |-> Ratio(valid_count, total_count),
             reason |-> "moderate_missing"]
       ELSE IF Len(non_null) > 0 /\ 100 * zeros > 50 * Len(non_null)
       THEN [type |-> "offline", density |-> Ratio(valid_count, total_count),
             zero_pct |-> Ratio(100 * zeros, Len(non_null))]
       ELSE [type |-> "continuous", density |-> Ratio(valid_count, total_count)]

\* detect_flatline(series). With n values of sum S and scaled sum of squares
\* D = n*sum(x^2) - S^2: std^2 = D / (n(n-1)) and mean = |S| / n, hence
\*   cv < 0.001             iff  10^6 * D * n < S^2 * (n - 1)   (mean > 0)
\*   relative_range < 0.01  iff  100 * range * n < |S|          (mean > 0)
\* (the cv and relative_range numbers of the returned dict are left out).
detect_flatline(series) ==
    LET data == Floats(dropna(series))
        n == Len(data)
        data_range == SeqMax(data) - SeqMin(data)
        S == SumSeq(data)
        D == SumSqDev(data)
        cv_small == IF S # 0 THEN ProdLess(D, 1000000 * n, S * S, n - 1) ELSE TRUE
        range_small == IF S # 0 THEN 100 * data_range * n < Abs(S)
                       ELSE 100 * data_range < 1
    IN IF n < 2 THEN [is_flatlined |-> FALSE, flatline_pct |-> 0]
       ELSE IF data_range = 0
       THEN [is_flatlined |-> TRUE, flatline_pct |-> 100, constant_value |-> data[1]]
       ELSE [is_flatlined |-> cv_small /\ range_small]

\* series.std(): the square root of the sample variance D / (n (n - 1)), kept
\* as the variance under a root sign; NaN for a single value
Sqrt(r) == [k |-> "sqrt", of |-> r]
std(data) ==
    IF Len(data) < 2 THEN NaN
    ELSE Sqrt(Ratio(SumSqDev(data), Len(data) * (Len(data) - 1)))

\* batch_time.diff().dropna() restricted to intervals > 0, for the non-null
\* times of the given rows in ascending order
PositiveIntervals(time_data, rows) ==
    LET batch_time == SortValues(Floats(dropna(MapSeq(rows, LAMBDA i : time_data[i]))))
    IN SelectSeq(Diff(batch_time), LAMBDA x : x > 0)

\* lines 112-124 for a non-empty list of intervals. With n intervals of sum
\* S and D = n * sum(x^2) - S^2, cv^2 = D * n / ((n - 1) * S^2), hence
\*   regularity_score < 0.3  iff  cv > 0.7  iff  49 (n - 1) S^2 < 100 n D
\*   is_regular (score > 0.5) iff  cv < 0.5  iff  4 n D < (n - 1) S^2
\* (n = 1: std_interval = 0 and the score is 1).
SamplingOf(intervals) ==
    LET n == Len(intervals)
        S == SumSeq(intervals)
        D == SumSqDev(intervals)
    IN [available |-> TRUE,
        mean_interval |-> Ratio(S, n),
        min_interval |-> SeqMin(intervals),
        max_interval |-> SeqMax(intervals),
        regularity_below_03 |-> n > 1 /\ ProdLess(49 * (n - 1), S * S, 100 * n, D),
        is_regular |-> n = 1 \/ ProdLess(4 * n, D, n - 1, S * S)]

\* the default None of the parameter batch_col (a series of a table with rows
\* is never empty)
NoSeries == <<>>

\* DataQualityAnalyzer.compute_sampling_stats(time_series, batch_col), both
\* given as the cells of the series (batch_col under the name batch_series)
compute_sampling_stats(time_series, batch_series) ==
    LET time_data == Tuple([i \in DOMAIN time_series |-> to_numeric_cell(time_series[i])])
        all == Tuple([i \in DOMAIN time_data |-> i])
        intervals ==
            IF batch_series # NoSeries
            THEN Flatten(MapSeq(Unique(batch_series), LAMBDA batch :
                     PositiveIntervals(time_data,
                         SelectSeq(all, LAMBDA i : ~isna(batch) /\ batch_series[i] = batch))))
            ELSE PositiveIntervals(time_data, all)
    IN IF dropna(time_data) = <<>> \/ Len(time_data) < 2 THEN [available |-> FALSE]
       ELSE IF intervals = <<>> THEN [available |-> FALSE]
       ELSE SamplingOf(intervals)

\* the sampling entry of _analyze_quality (lines 678-679, 690)
Sampling(a) ==
    compute_sampling_stats(
        IF a.time_col # None THEN Column(a.df, a.time_col).values
        ELSE Tuple([i \in 1..NRows(a.df) |-> Num(i - 1)]),
        IF a.batch_col # None THEN Column(a.df, a.batch_col).values ELSE NoSeries)

\* DatasetAnalyzer._analyze_quality, the per-variable entries (lines 682-699)
VariableQuality(a, col, sampling) ==
    LET series == Column(a.df, col).values
        data == Floats(dropna(series))
        all_na == data = <<>>
        missing_pct == compute_missing_percentage(series)
    IN [variable |-> col,
        missing_pct |-> missing_pct,
        density |-> classify_signal_density(series, missing_pct),
        flatline |-> detect_flatline(series),
        sampling |-> sampling,
        stats |-> [mean |-> IF all_na THEN None ELSE Ratio(SumSeq(data), Len(data)),
                   std |-> IF all_na THEN None ELSE std(data),
                   min |-> IF all_na THEN None ELSE SeqMin(data),
                   max |-> IF all_na THEN None ELSE SeqMax(data)]]

\* variant of the flatline penalty without the cap of 5 variables
flatline_penalty_uncapped(flatline_count) == 3 * flatline_count

\* 3 * min(flatline_count, 5)
flatline_penalty(flatline_count) == 3 * Min2(flatline_count, 5)

\* DatasetAnalyzer._compute_overall_quality. The average of the missing
\* percentages 100 * nulls / len is compared with len as common denominator.
_compute_overall_quality(variable_qualities) ==
    LET k == Len(variable_qualities)
        len == variable_qualities[1].missing_pct.den
        nulls100 == SumSeq(MapSeq(variable_qualities, LAMBDA v : v.missing_pct.num))
        high == nulls100 > 20 * len * k
        moderate == ~high /\ nulls100 > 5 * len * k
        sampling_info == variable_qualities[1].sampling
        irregular == sampling_info.available /\ sampling_info.regularity_below_03
        flatline_count == Len(SelectSeq(variable_qualities,
                                        LAMBDA v : v.flatline.is_flatlined))
        offline_count == Len(SelectSeq(variable_qualities,
                                       LAMBDA v : v.density.type = "offline"))
        score == 100 - (IF high THEN 20 ELSE IF moderate THEN 5 ELSE 0)
                     - (IF irregular THEN 10 ELSE 0)
                     - (IF flatline_count > 0 THEN flatline_penalty(flatline_count) ELSE 0)
    IN IF k = 0 THEN [score |-> 0, flags |-> <<"no_data">>]
       ELSE [score |-> Max2(0, Min2(100, score)),
             flags |->
                 (IF high THEN <<"high_missing_data">>
                  ELSE IF moderate THEN <<"moderate_missing_data">> ELSE <<>>)
                 \o (IF irregular THEN <<"irregular_sampling">> ELSE <<>>)
                 \o (IF flatline_count > 0
                     THEN <<"flatlined_signals:" \o ToString(flatline_count)>> ELSE <<>>)
                 \o (IF offline_count > 0
                     THEN <<"offline_signals:" \o ToString(offline_count)>> ELSE <<>>)]

Quality(variable_quality) ==
    [variables |-> variable_quality,
     overall |-> _compute_overall_quality(variable_quality)]

_analyze_quality(a) ==
    Quality(MapSeq(a.numeric_cols, LAMBDA col : VariableQuality(a, col, Sampling(a))))

-----------------------------------------------------------------------------
(* Exceptions, sorting, regression *)

\* an exception propagating out of a call
Raise(kind) == [raised |-> kind]
IsRaise(x) == "raised" \in DOMAIN x

\* numpy.argsort applied to (time, value) pairs: the pairs in ascending time.
\* Pairs of equal time keep their row order (numpy leaves that order
\* unspecified for its default sort).
RECURSIVE InsertByTime(_, _)
InsertByTime(sorted, p) ==
    IF sorted = <<>> THEN <<p>>
    ELSE IF sorted[Len(sorted)].t <= p.t THEN Append(sorted, p)
    ELSE Append(InsertByTime(SubSeq(sorted, 1, Len(sorted) - 1), p),
                sorted[Len(sorted)])

SortByTime(pairs) ==
    LET F[i \in 0..Len(pairs)] ==
            IF i = 0 THEN <<>> ELSE InsertByTime(F[i - 1], pairs[i])
    IN F[Len(pairs)]

Times(pairs) == Tuple([i \in DOMAIN pairs |-> pairs[i].t])
Values(pairs) == Tuple([i \in DOMAIN pairs |-> pairs[i].v])

\* n * sum(x*y) - sum(x) * sum(y), the scaled co-deviation of x and y
SumCoDev(x, y) ==
    Len(x) * SumSeq(Tuple([i \in DOMAIN x |-> x[i] * y[i]])) - SumSeq(x) * SumSeq(y)

\* a correlation coefficient r = sxy / sqrt(sxx * syy), kept exact
Corr(x, y) == [sxy |-> SumCoDev(x, y), sxx |-> SumSqDev(x), syy |-> SumSqDev(y)]

\* scipy.stats.linregress(x, y): ValueError when all x values are identical;
\* r is 0 when y is constant. Reported here: the sign of the slope and r.
linregress(x, y) ==
    IF Len(x) > 1 /\ SeqMax(x) = SeqMin(x)
    THEN Raise("ValueError")
    ELSE LET c == Corr(x, y)
         IN [slope_sign |-> IF c.sxy > 0 THEN 1 ELSE IF c.sxy < 0 THEN -1 ELSE 0,
             r |-> IF c.syy = 0 THEN [c EXCEPT !.sxy = 0] ELSE c]

\* abs(r_value) < 0.3, i.e. 100 * sxy^2 < 9 * sxx * syy
AbsRBelow03(r) ==
    IF r.sxx = 0 \/ r.syy = 0 THEN r.sxy = 0
    ELSE ProdLess(10 * Abs(r.sxy), 10 * Abs(r.sxy), 9 * r.sxx, r.syy)

-----------------------------------------------------------------------------
(* TemporalAnalyzer.segment_phases *)

\* uniform_filter1d(values, size=3, mode='nearest'), times 3: the window of
\* a series of fewer than 80 samples is max(3, n // 20) = 3
Smoothed3(values) ==
    LET n == Len(values)
        at(i) == values[Max2(1, Min2(n, i))]
    IN Tuple([i \in 1..n |-> at(i - 1) + at(i) + at(i + 1)])

\* np.gradient of the smoothed series, times 6: central differences inside,
\* one-sided differences at both ends
Gradient6(s) ==
    LET n == Len(s)
    IN Tuple([i \in 1..n |-> IF i = 1 THEN 2 * (s[2] - s[1])
                             ELSE IF i = n THEN 2 * (s[n] - s[n - 1])
                             ELSE s[i + 1] - s[i - 1]])

\* lines 182-194: d > threshold, d < -threshold or neither, the threshold
\* being half the (population) standard deviation of the derivative;
\* |d| > std / 2 is 4 * n^2 * d^2 > n * sum(d^2) - sum(d)^2
PhaseTypes(values) ==
    LET derivative == Gradient6(Smoothed3(values))
        n == Len(derivative)
        dev == SumSqDev(derivative)
        above(d) == 4 * n * n * d * d > dev
    IN Tuple([i \in 1..n |-> IF derivative[i] > 0 /\ above(derivative[i]) THEN "increasing"
                             ELSE IF derivative[i] < 0 /\ above(derivative[i]) THEN "decreasing"
                             ELSE "stationary"])

\* the phase record of lines 198-206 and 211-219 (mean_rate apart) for the
\* samples first..last, 0-based
Phase(time, phase_type, first, last) ==
    [phase_type |-> phase_type,
     start_index |-> first,
     end_index |-> last,
     start_time |-> time[first + 1],
     end_time |-> time[last + 1],
     duration |-> time[last + 1] - time[first + 1]]

\* the loop of lines 184-208 over the types of the samples 0..i-1, and the
\* phases after line 219
PhasesOf(time, types, min_phase_length) ==
    LET n == Len(types)
        Loop[i \in 0..n] ==
            IF i = 0 THEN [phases |-> <<>>, current_phase |-> None, phase_start |-> 0]
            ELSE LET prev == Loop[i - 1]
                     phase_type == types[i]
                 IN IF phase_type # prev.current_phase
                    THEN [phases |->
                              IF /\ prev.current_phase # None
                                 /\ (i - 1) - prev.phase_start >= min_phase_length
                              THEN Append(prev.phases,
                                          Phase(time, prev.current_phase,
                                                prev.phase_start, i - 2))
                              ELSE prev.phases,
                          current_phase |-> phase_type,
                          phase_start |-> i - 1]
                    ELSE prev
        last == Loop[n]
    IN IF last.current_phase # None /\ n - last.phase_start >= min_phase_length
       THEN Append(last.phases, Phase(time, last.current_phase, last.phase_start, n - 1))
       ELSE last.phases

\* variant of segment_phases without the test of line 176
segment_phases_of_any_length(time, values) ==
    IF Len(values) < 2 THEN <<>>
    ELSE PhasesOf(time, PhaseTypes(values), 5)

\* TemporalAnalyzer.segment_phases(time, values) with min_phase_length = 5
segment_phases(time, values) ==
    IF Len(values) < 5 * 2 THEN <<>>
    ELSE PhasesOf(time, PhaseTypes(values), 5)

-----------------------------------------------------------------------------
(* TemporalAnalyzer and DatasetAnalyzer._analyze_temporal *)

\* compute_growth_metrics(time, values): the growth verdict and the ratio of
\* positive successive differences (the slope statistics are left out)
compute_growth_metrics(time, values) ==
    LET diffs == Diff(values)
        positive == Cardinality({i \in DOMAIN diffs : diffs[i] > 0})
    IN IF Len(values) < 5 THEN [is_growth_like |-> FALSE]
       ELSE [is_growth_like |-> 10 * positive > 7 * Len(diffs),
             monotonicity_ratio |-> Ratio(positive, Len(diffs))]

\* DatasetAnalyzer._compute_trend(time, values)
_compute_trend(time, values) ==
    IF Len(values) < 5 THEN [available |-> FALSE]
    ELSE LET reg == linregress(time, values)
         IN IF IsRaise(reg) THEN reg
            ELSE [available |-> TRUE,
                  direction |-> IF AbsRBelow03(reg.r) THEN "stable"
                                ELSE IF reg.slope_sign > 0 THEN "increasing"
                                ELSE "decreasing",
                  r |-> reg.r]

\* the (time, value) pairs of a column over the rows of a batch that are
\* non-null in both, in row order (lines 766-772)
CleanPairs(a, col, batch) ==
    LET rows == BatchRows(a, batch)
        tv == to_numeric(Column(a.df, a.time_col)).values
        cv == Column(a.df, col).values
        ok == SelectIdx(rows, LAMBDA k : ~isna(tv[rows[k]]) /\ ~isna(cv[rows[k]]))
    IN MapSeq(ok, LAMBDA i : [t |-> tv[i].v, v |-> cv[i].v])

\* the entry of one (variable, batch), lines 777-800 (derivative summary,
\* change points and phases are left out)
TemporalEntry(pairs) ==
    LET sorted == SortByTime(pairs)
    IN [growth_metrics |-> compute_growth_metrics(Times(sorted), Values(sorted)),
        trend |-> _compute_trend(Times(sorted), Values(sorted))]

\* the batches of a variable that get an entry: those with at least 5 pairs
TemporalBatches(a, col) ==
    SelectIdx(BatchPartitions(a), LAMBDA i :
        Len(CleanPairs(a, col, BatchPartitions(a)[i])) >= 5)

\* a dict built by assigning keys in order: the last assignment of a key wins
DictOf(keys, val(_)) ==
    [k \in Range(keys) |->
        val(CHOOSE i \in DOMAIN keys :
                keys[i] = k /\ \A j \in (i + 1)..Len(keys) : keys[j] # k)]

_analyze_temporal(a) ==
    IF a.time_col = None THEN [available |-> FALSE]
    ELSE LET kept(col) == TemporalBatches(a, col)
             entry(col, batch) == TemporalEntry(CleanPairs(a, col, batch))
             raises == \E c \in DOMAIN a.numeric_cols :
                           \E b \in Range(kept(a.numeric_cols[c])) :
                               IsRaise(entry(a.numeric_cols[c], b).trend)
         IN IF raises THEN Raise("ValueError")
            ELSE [available |-> TRUE,
                  variables |->
                      DictOf(a.numeric_cols, LAMBDA c :
                          [batches |->
                              DictOf(MapSeq(kept(a.numeric_cols[c]),
                                            LAMBDA b : BatchId(a, b)),
                                     LAMBDA k :
                                        entry(a.numeric_cols[c],
                                              kept(a.numeric_cols[c])[k]))])]

-----------------------------------------------------------------------------
(* RelationshipAnalyzer and DatasetAnalyzer._analyze_relationships *)

\* scipy.stats.pearsonr is NaN on a constant input
IsNaNCorr(r) == r.sxx = 0 \/ r.syy = 0

\* abs(r1) > abs(r2); False as soon as one of them is NaN
AbsGreater(r1, r2) ==
    IF IsNaNCorr(r1) \/ IsNaNCorr(r2) THEN FALSE
    ELSE \* r2^2 < r1^2, i.e. sxy2^2 * sxx1 * syy1 < sxy1^2 * sxx2 * syy2
         Prod4Less(Abs(r2.sxy), r1.sxx, r1.syy, Abs(r1.sxy), r2.sxx, r2.syy)

\* the number 0 that best_corr starts from
ZeroCorr == [sxy |-> 0, sxx |-> 1, syy |-> 1]

\* x[mask], y[mask] with mask = ~(isnan(x) | isnan(y)), as numbers
CleanXY(x, y) ==
    LET keep == SelectIdx(Tuple([i \in DOMAIN x |-> i]),
                          LAMBDA i : ~isna(x[i]) /\ ~isna(y[i]))
    IN [x |-> MapSeq(keep, LAMBDA i : x[i].v), y |-> MapSeq(keep, LAMBDA i : y[i].v)]

\* compute_correlations(x, y) (the Spearman block and p-values are left out)
compute_correlations(x, y) ==
    LET c == CleanXY(x, y)
    IN IF Len(c.x) < 5 THEN [available |-> FALSE]
       ELSE [available |-> TRUE,
             pearson |-> [r |-> Corr(c.x, c.y)],
             n_samples |-> Len(c.x)]

\* the two slices compared at a lag (lines 289-296)
Shifted(xc, yc, lag) ==
    LET n == Len(xc)
    IN IF lag < 0 THEN [x |-> SubSeq(xc, 1, n + lag), y |-> SubSeq(yc, 1 - lag, n)]
       ELSE IF lag > 0 THEN [x |-> SubSeq(xc, lag + 1, n), y |-> SubSeq(yc, 1, n - lag)]
       ELSE [x |-> xc, y |-> yc]

\* one iteration of the loop over lags (lines 288-306) on the loop state st
LagStep(st, xc, yc, lag) ==
    LET sh == Shifted(xc, yc, lag)
        r == Corr(sh.x, sh.y)
    IN IF Len(sh.x) < 5 THEN st
       ELSE [lag_profile |-> Append(st.lag_profile, [lag |-> lag, correlation |-> r]),
             best_corr |-> IF AbsGreater(r, st.best_corr) THEN r ELSE st.best_corr,
             best_lag |-> IF AbsGreater(r, st.best_corr) THEN lag ELSE st.best_lag]

compute_lagged_correlation(x, y, max_lag) ==
    LET c == CleanXY(x, y)
        Loop[k \in 0..(2 * max_lag + 1)] ==
            IF k = 0
            THEN [lag_profile |-> <<>>, best_corr |-> ZeroCorr, best_lag |-> 0]
            ELSE LagStep(Loop[k - 1], c.x, c.y, k - 1 - max_lag)
        end == Loop[2 * max_lag + 1]
    IN IF Len(c.x) < max_lag + 5 THEN [available |-> FALSE]
       ELSE [available |-> TRUE,
             best_lag |-> end.best_lag,
             best_correlation |-> end.best_corr,
             lag_profile |-> end.lag_profile]

\* the entry of one pair of columns (lines 839-871; cross-batch stability is
\* left out)
PairEntry(a, col_x, col_y) ==
    LET x == Column(a.df, col_x).values
        y == Column(a.df, col_y).values
    IN [var_x |-> col_x, var_y |-> col_y,
        correlation |-> compute_correlations(x, y),
        lagged_correlation |-> compute_lagged_correlation(x, y, 5)]

\* key(e1) < key(e2) for the sort key abs(pearson r) of an entry: False as
\* soon as one of the two is NaN
KeyLess(e1, e2) == AbsGreater(e2.correlation.pearson.r, e1.correlation.pearson.r)

Reverse(s) == Tuple([i \in DOMAIN s |-> s[Len(s) + 1 - i]])

\* count_run of CPython's listsort: a[1..n] being a run (strictly descending
\* or non-descending), the length of the run it extends to
RECURSIVE RunLength(_, _, _)
RunLength(a, n, descending) ==
    IF n < Len(a) /\ (KeyLess(a[n + 1], a[n]) <=> descending)
    THEN RunLength(a, n + 1, descending)
    ELSE n

\* the binary search of binarysort for the place of pivot in a[l+1..r]
RECURSIVE BinarySearch(_, _, _, _)
BinarySearch(a, pivot, l, r) ==
    IF l >= r THEN l
    ELSE IF KeyLess(pivot, a[l + ((r - l) \div 2) + 1])
    THEN BinarySearch(a, pivot, l, l + ((r - l) \div 2))
    ELSE BinarySearch(a, pivot, l + ((r - l) \div 2) + 1, r)

\* binarysort of listsort: a[1..start] is sorted, the others are inserted
RECURSIVE binarysort(_, _)
binarysort(a, start) ==
    IF start >= Len(a) THEN a
    ELSE LET l == BinarySearch(a, a[start + 1], 0, start)
         IN binarysort(SubSeq(a, 1, l) \o <<a[start + 1]>> \o SubSeq(a, l + 1, start)
                           \o SubSeq(a, start + 2, Len(a)),
                       start + 1)

\* relationships.sort(key=..., reverse=True) as CPython's listsort does it
\* for a list of fewer than 64 entries: the list is reversed, the run at its
\* head is found (and reversed when descending), the other entries are
\* inserted by binary search, and the list is reversed again. Every
\* comparison is key(e1) < key(e2).
sort_reverse(list) ==
    LET a == Reverse(list)
        descending == Len(a) >= 2 /\ KeyLess(a[2], a[1])
        run == IF Len(a) < 2 THEN Len(a) ELSE RunLength(a, 2, descending)
        b == IF descending
             THEN Reverse(SubSeq(a, 1, run)) \o SubSeq(a, run + 1, Len(a))
             ELSE a
    IN Reverse(binarysort(b, run))

_analyze_relationships(a) ==
    LET cols == SubSeq(a.numeric_cols, 1, Min2(15, Len(a.numeric_cols)))
        idx == {p \in (DOMAIN cols) \X (DOMAIN cols) : p[1] < p[2]}
        \* the pairs in loop order: by first index, then by second
        order == Tuple([k \in 1..Cardinality(idx) |->
                    CHOOSE p \in idx :
                        Cardinality({q \in idx : q[1] < p[1] \/
                                        (q[1] = p[1] /\ q[2] < p[2])}) = k - 1])
        all == MapSeq(order, LAMBDA p : PairEntry(a, cols[p[1]], cols[p[2]]))
        kept == SelectIdx(all, LAMBDA i : all[i].correlation.available)
        ranked == sort_reverse(kept)
    IN IF Len(a.numeric_cols) < 2 THEN <<>>
       ELSE SubSeq(ranked, 1, Min2(30, Len(ranked)))

-----------------------------------------------------------------------------
(* Batch comparison, global scores, plot data, analyze() *)

\* rankings.sort(key=value, reverse=higher_is_better): a stable sort, so that
\* entries of equal value keep their order of insertion in both directions
RECURSIVE InsertByValue(_, _, _)
InsertByValue(sorted, e, reverse) ==
    IF sorted = <<>> THEN <<e>>
    ELSE IF ~(IF reverse THEN e.value > sorted[Len(sorted)].value
                         ELSE e.value < sorted[Len(sorted)].value)
    THEN Append(sorted, e)
    ELSE Append(InsertByValue(SubSeq(sorted, 1, Len(sorted) - 1), e, reverse),
                sorted[Len(sorted)])

\* variant of the score that counts positions from 1
normalized_score_from_one(i, n) == IF n > 1 THEN Ratio(n - i - 1, n) ELSE Ratio(1, 1)

\* 1 - (i / len(rankings)) if len(rankings) > 1 else 1.0, for the 0-based
\* position i of an entry among n
normalized_score(i, n) == IF n > 1 THEN Ratio(n - i, n) ELSE Ratio(1, 1)

\* BatchComparisonAnalyzer.rank_batches. batch_metrics is the dict in
\* insertion order: a sequence of [batch_id, metrics], metrics a record.
rank_batches(batch_metrics, metric_key, higher_is_better) ==
    LET carrying == SelectIdx(batch_metrics, LAMBDA i :
                        metric_key \in DOMAIN batch_metrics[i].metrics)
        rankings == MapSeq(carrying, LAMBDA e :
                        [batch_id |-> e.batch_id, value |-> e.metrics[metric_key]])
        Sorted[k \in 0..Len(rankings)] ==
            IF k = 0 THEN <<>>
            ELSE InsertByValue(Sorted[k - 1], rankings[k], higher_is_better)
    IN Tuple([i \in 1..Len(rankings) |->
           [batch_id |-> Sorted[Len(rankings)][i].batch_id,
            value |-> Sorted[Len(rankings)][i].value,
            rank |-> i,
            normalized_score |-> normalized_score(i - 1, Len(rankings))]])

\* np.percentile(values, 25 * q), times 4: linear interpolation between the
\* sorted values next to the 0-based position q * (n - 1) / 4
percentile(values, q) ==
    LET sorted == SortValues(values)
        lo == (q * (Len(values) - 1)) \div 4
        frac == (q * (Len(values) - 1)) % 4
    IN IF frac = 0 THEN 4 * sorted[lo + 1]
       ELSE 4 * sorted[lo + 1] + frac * (sorted[lo + 2] - sorted[lo + 1])

\* variant that asks for 5 batches
detect_outlier_batches_min_five(batch_metrics, metric_key) ==
    IF Len(SelectIdx(batch_metrics, LAMBDA i :
               metric_key \in DOMAIN batch_metrics[i].metrics)) < 5
    THEN <<>>
    ELSE LET carrying == SelectIdx(batch_metrics, LAMBDA i :
                             metric_key \in DOMAIN batch_metrics[i].metrics)
             values == MapSeq(carrying, LAMBDA e : e.metrics[metric_key])
             iqr == percentile(values, 3) - percentile(values, 1)
         IN MapSeq(SelectSeq(carrying, LAMBDA e :
                \/ 8 * e.metrics[metric_key] < 2 * percentile(values, 1) - 3 * iqr
                \/ 8 * e.metrics[metric_key] > 2 * percentile(values, 3) + 3 * iqr),
                   LAMBDA e : e.batch_id)

\* BatchComparisonAnalyzer.detect_outlier_batches. The quartiles are kept
\* times 4 and the bounds q1 - 1.5 * iqr and q3 + 1.5 * iqr times 8.
detect_outlier_batches(batch_metrics, metric_key) ==
    LET carrying == SelectIdx(batch_metrics, LAMBDA i :
                        metric_key \in DOMAIN batch_metrics[i].metrics)
        values == MapSeq(carrying, LAMBDA e : e.metrics[metric_key])
        q1 == percentile(values, 1)
        q3 == percentile(values, 3)
        iqr == q3 - q1
        lower_bound == 2 * q1 - 3 * iqr
        upper_bound == 2 * q3 + 3 * iqr
    IN IF Len(values) < 4 THEN <<>>
       ELSE MapSeq(SelectSeq(carrying, LAMBDA e :
                \/ 8 * e.metrics[metric_key] < lower_bound
                \/ 8 * e.metrics[metric_key] > upper_bound),
                   LAMBDA e : e.batch_id)

\* metric_keys of compute_best_batch_per_metric (line 420) and of the
\* rankings (line 927)
metric_keys == <<"max_value", "integrated_value", "mean_rate", "rate_stability">>

\* variant of the loop in which a later batch of equal value replaces the best
BestBatch_last_wins(batch_metrics, metric) ==
    LET Loop[k \in 0..Len(batch_metrics)] ==
            IF k = 0 THEN [best_batch |-> None, best_value |-> 0]
            ELSE IF /\ metric \in DOMAIN batch_metrics[k].metrics
                    /\ (Loop[k - 1].best_batch = None
                          \/ batch_metrics[k].metrics[metric] >= Loop[k - 1].best_value)
            THEN [best_batch |-> batch_metrics[k].batch_id,
                  best_value |-> batch_metrics[k].metrics[metric]]
            ELSE Loop[k - 1]
    IN Loop[Len(batch_metrics)]

\* the loop over batch_metrics.items() for one metric (lines 422-432);
\* best_batch None stands for best_value None as well
BestBatch(batch_metrics, metric) ==
    LET Loop[k \in 0..Len(batch_metrics)] ==
            IF k = 0 THEN [best_batch |-> None, best_value |-> 0]
            ELSE IF /\ metric \in DOMAIN batch_metrics[k].metrics
                    /\ (Loop[k - 1].best_batch = None
                          \/ batch_metrics[k].metrics[metric] > Loop[k - 1].best_value)
            THEN [best_batch |-> batch_metrics[k].batch_id,
                  best_value |-> batch_metrics[k].metrics[metric]]
            ELSE Loop[k - 1]
    IN Loop[Len(batch_metrics)]

\* GlobalMetricsAnalyzer.compute_best_batch_per_metric (score is always 1.0)
compute_best_batch_per_metric(batch_metrics, variable) ==
    MapSeq(SelectSeq(metric_keys,
                     LAMBDA metric : BestBatch(batch_metrics, metric).best_batch # None),
           LAMBDA metric : [variable |-> variable,
                            metric |-> metric,
                            best_batch |-> BestBatch(batch_metrics, metric).best_batch,
                            value |-> BestBatch(batch_metrics, metric).best_value])

\* lines 975-981: the rows of a batch whose time and value are both non-null;
\* without a time column the time is the position within the batch
GlobalPairs(a, col, batch) ==
    LET rows == BatchRows(a, batch)
        cv == Column(a.df, col).values
        tv == IF a.time_col # None
              THEN MapSeq(rows, LAMBDA i : to_numeric(Column(a.df, a.time_col)).values[i])
              ELSE Tuple([k \in DOMAIN rows |-> Num(k - 1)])
        ok == SelectIdx(Tuple([k \in DOMAIN rows |-> k]),
                        LAMBDA k : ~isna(tv[k]) /\ ~isna(cv[rows[k]]))
    IN MapSeq(ok, LAMBDA k : [t |-> tv[k].v, v |-> cv[rows[k]].v])

\* np.trapezoid(values, time) of compute_batch_metrics (line 351), times 2
integrated_value(pairs) ==
    SumSeq(Tuple([i \in 1..(Len(pairs) - 1) |->
        (pairs[i + 1].t - pairs[i].t) * (pairs[i].v + pairs[i + 1].v)]))

\* BatchComparisonAnalyzer.compute_batch_metrics on the pairs sorted by time:
\* of its keys, max_value and integrated_value
compute_batch_metrics(pairs) ==
    IF Len(pairs) < 2 THEN <<>>
    ELSE [max_value |-> SeqMax(Values(pairs)),
          integrated_value |-> integrated_value(pairs)]

\* lines 903-920: the rows of a batch whose time is non-null, in ascending
\* time; the value of a row may be NaN
ComparisonRows(a, col, batch) ==
    LET rows == BatchRows(a, batch)
        cv == Column(a.df, col).values
        tv == IF a.time_col # None
              THEN MapSeq(rows, LAMBDA i : to_numeric(Column(a.df, a.time_col)).values[i])
              ELSE Tuple([k \in DOMAIN rows |-> Num(k - 1)])
        ok == SelectIdx(Tuple([k \in DOMAIN rows |-> k]), LAMBDA k : ~isna(tv[k]))
    IN SortByTime(MapSeq(ok, LAMBDA k : [t |-> tv[k].v, c |-> cv[rows[k]]]))

\* batch_metrics of _analyze_batch_comparison for one column, in insertion
\* order: an entry for every batch with a row (line 917), its metrics being
\* those of the rows whose value is not NaN (lines 341-346)
ComparisonBatchMetrics(a, col) ==
    MapSeq(SelectSeq(BatchValues(a), LAMBDA b : Len(ComparisonRows(a, col, b)) > 0),
           LAMBDA b :
               [batch_id |-> BatchId(a, b),
                metrics |-> compute_batch_metrics(
                    MapSeq(SelectSeq(ComparisonRows(a, col, b), LAMBDA p : ~isna(p.c)),
                           LAMBDA p : [t |-> p.t, v |-> p.c.v]))])

\* DatasetAnalyzer._analyze_batch_comparison: the availability header
\* (lines 883-897) and, of every numeric variable, the rankings by
\* max_value and by integrated_value (lines 899-931)
_analyze_batch_comparison(a) ==
    IF a.batch_col = None THEN [available |-> FALSE]
    ELSE IF Len(BatchValues(a)) < 2
    THEN [available |-> FALSE, reason |-> "single_batch"]
    ELSE [available |-> TRUE,
          batch_count |-> Len(BatchValues(a)),
          batch_order |-> MapSeq(BatchValues(a), LAMBDA b : BatchId(a, b)),
          variables |->
              DictOf(a.numeric_cols, LAMBDA c :
                  [rankings |->
                      [metric \in {"max_value", "integrated_value"} |->
                          rank_batches(ComparisonBatchMetrics(a, a.numeric_cols[c]),
                                       metric, TRUE)]])]

\* batch_metrics of _compute_global_scores for one column, in insertion
\* order: an entry for every batch with more than 2 valid pairs (line 983)
GlobalBatchMetrics(a, col) ==
    MapSeq(SelectSeq(BatchValues(a), LAMBDA b : Len(GlobalPairs(a, col, b)) > 2),
           LAMBDA b : [batch_id |-> BatchId(a, b),
                       metrics |-> compute_batch_metrics(
                                       SortByTime(GlobalPairs(a, col, b)))])

\* the values compute_batch_trend collects (lines 448-451)
TrendValues(batch_metrics, metric_key, batch_order) ==
    LET Carries(id) == \E j \in DOMAIN batch_metrics :
                          /\ batch_metrics[j].batch_id = id
                          /\ metric_key \in DOMAIN batch_metrics[j].metrics
        Entry(id) == batch_metrics[
            CHOOSE j \in DOMAIN batch_metrics :
                /\ batch_metrics[j].batch_id = id
                /\ \A k \in (j + 1)..Len(batch_metrics) : batch_metrics[k].batch_id # id]
    IN MapSeq(SelectSeq(batch_order, Carries),
              LAMBDA id : Entry(id).metrics[metric_key])

\* variant of the classification that looks at the slope alone
TrendOf_by_slope(reg) ==
    IF reg.slope_sign > 0 THEN "improving"
    ELSE "degrading"

\* the classification of lines 459-464
TrendOf(reg) ==
    IF AbsRBelow03(reg.r) THEN "stable"
    ELSE IF reg.slope_sign > 0 THEN "improving"
    ELSE "degrading"

\* variant of compute_batch_trend that accepts two batches
compute_batch_trend_of_two(batch_metrics, metric_key, batch_order) ==
    LET values == TrendValues(batch_metrics, metric_key, batch_order)
    IN IF Len(values) < 2 THEN [available |-> FALSE]
       ELSE [available |-> TRUE,
             trend |-> TrendOf(linregress(Tuple([i \in DOMAIN values |-> i - 1]),
                                          values))]

\* GlobalMetricsAnalyzer.compute_batch_trend: availability and trend, the
\* regression being over the positions 0, 1, ... of the values
compute_batch_trend(batch_metrics, metric_key, batch_order) ==
    LET values == TrendValues(batch_metrics, metric_key, batch_order)
    IN IF Len(values) < 3 THEN [available |-> FALSE]
       ELSE [available |-> TRUE,
             trend |-> TrendOf(linregress(Tuple([i \in DOMAIN values |-> i - 1]),
                                          values))]

\* t.get("trend") == trend, counted over the values of batch_trends
CountTrend(batch_trends, trend) ==
    Cardinality({c \in DOMAIN batch_trends :
        batch_trends[c].available /\ batch_trends[c].trend = trend})

\* lines 1006-1011
OverallTrend(improving_count, degrading_count, total) ==
    IF improving_count > degrading_count THEN "improving"
    ELSE IF degrading_count > improving_count THEN "degrading"
    ELSE "stable"

\* the overall assessment of lines 999-1019
overall_assessment(batch_trends) ==
    LET improving_count == CountTrend(batch_trends, "improving")
        degrading_count == CountTrend(batch_trends, "degrading")
        total == Cardinality(DOMAIN batch_trends)
    IN IF total > 0
       THEN [trend |-> OverallTrend(improving_count, degrading_count, total),
             improving_variables |-> improving_count,
             degrading_variables |-> degrading_count,
             stable_variables |-> total - improving_count - degrading_count]
       ELSE <<>>

GlobalScores(best_batches, batch_trends) ==
    [available |-> TRUE,
     best_batches |-> best_batches,
     batch_trends |-> batch_trends,
     overall_assessment |-> overall_assessment(batch_trends)]

_compute_global_scores(a) ==
    IF a.batch_col = None \/ Len(BatchValues(a)) < 2 THEN [available |-> FALSE]
    ELSE LET batch_order == MapSeq(BatchValues(a), LAMBDA b : BatchId(a, b))
             cols == SubSeq(a.numeric_cols, 1, Min2(10, Len(a.numeric_cols)))
         IN GlobalScores(
                Flatten(MapSeq(cols, LAMBDA col :
                    compute_best_batch_per_metric(GlobalBatchMetrics(a, col), col))),
                DictOf(cols, LAMBDA c :
                    compute_batch_trend(GlobalBatchMetrics(a, cols[c]),
                                        "integrated_value", batch_order)))

\* DatasetAnalyzer._prepare_plot_data: which variables get a time series
\* and which a distribution
_prepare_plot_data(a) ==
    [time_series |->
        IF a.time_col = None THEN {}
        ELSE {c \in Range(a.numeric_cols) : CleanPairs(a, c, AllRows) # <<>>},
     distributions |->
        {c \in Range(a.numeric_cols) : dropna(Column(a.df, c).values) # <<>>}]

\* DatasetAnalyzer.analyze on the analyzer a: the analyzer afterwards and
\* what the call returned, a document or an exception
\* lines 535-543 on the analyzer b that _infer_columns and _standardize_data
\* left, temporal being what _analyze_temporal did
Document(b, temporal) ==
    IF IsRaise(temporal) THEN temporal
    ELSE [overview |-> _get_overview(b),
          quality |-> _analyze_quality(b),
          temporal |-> temporal,
          relationships |-> _analyze_relationships(b),
          batch_comparison |-> _analyze_batch_comparison(b),
          global_scores |-> _compute_global_scores(b),
          plot_ready |-> _prepare_plot_data(b)]

\* lines 533-543 on the analyzer b that _infer_columns left
AnalyzeInferred(b) ==
    [analyzer |-> b,
     standardized_data |-> _standardize_data(b),
     returned |-> Document(b, _analyze_temporal(b))]

analyze(a) == AnalyzeInferred(_infer_columns(a))

-----------------------------------------------------------------------------
(* The datasets the analyzer is constructed on *)

MaxCols == 3       \* most columns of a catalogue dataset
MaxCalls == 2      \* most runs of _infer_columns on one analyzer object

\* row counts: below and above the 5-sample and 10-sample minima, and large
\* enough (> 20) for the pattern test of _is_batch_like
RowCounts == {6, 24}

Col(name, dtype, vals) == [name |-> name, dtype |-> dtype, values |-> Tuple(vals)]

\* The column catalogue for n rows, in file order. Values are functions of
\* the row i.
Catalogue(n) ==
    << Col("Batch", "object",
           [i \in 1..n |-> IF 2 * i <= n THEN Str("B1") ELSE Str("B2")]),
       Col("lot", "int64", [i \in 1..n |-> Num((i - 1) \div 8 + 1)]),
       Col("Time", "float64", [i \in 1..n |-> Num(i - 1)]),
       Col("t", "int64", [i \in 1..n |-> Num(0)]),
       Col("Temp", "float64",
           [i \in 1..n |-> IF i % 5 = 0 THEN NaN ELSE Num(20 + (i % 3))]),
       Col("pH", "float64", [i \in 1..n |-> Num((i * i) % 7)]),
       Col("grp", "object",
           [i \in 1..n |-> IF i % 2 = 1 THEN Str("a") ELSE Str("b")]),
       Col("zone", "int64", [i \in 1..n |-> IF 2 * i <= n THEN Num(1) ELSE Num(2)]),
       Col("code", "object",
           [i \in 1..n |-> IF i % 2 = 1 THEN Str(ToString(i)) ELSE Str("n/a")]),
       Col("notes", "object",
           [i \in 1..n |-> IF i % 4 = 0 THEN Str("?") ELSE Str(ToString(i))]),
       Col("x", "int64", [i \in 1..n |-> Num(i)]),
       Col("y", "int64", [i \in 1..n |-> Num(-i)]),
       Col("blank", "float64", [i \in 1..n |-> NaN]),
       Col("sample", "object",
           [i \in 1..n |-> IF i % 4 = 0 THEN NaN
                           ELSE IF 2 * i <= n THEN Str("S1") ELSE Str("S2")]) >>

\* the columns of c at the positions of the set S, in file order
Pick(c, S) == SelectIdx(c, LAMBDA i : i \in S)

\* every choice of 1..MaxCols catalogue columns, kept in catalogue order
CatalogueDatasets ==
    { Pick(Catalogue(n), S) :
        <<n, S>> \in RowCounts \X
                     {T \in SUBSET (1..14) : Cardinality(T) \in 1..MaxCols} }

\* The end-to-end scenario: columns Batch, Hour, Biomass, batches B1 and B2
\* of 20 rows each, in blocks or interleaved. pos is the position of row i
\* within its batch and b the number (0 or 1) of its batch.
ScenarioBatch(layout, i) ==
    IF layout = "blocks" THEN (i - 1) \div 20 ELSE (i - 1) % 2
ScenarioPos(layout, i) ==
    IF layout = "blocks" THEN (i - 1) % 20 ELSE (i - 1) \div 2

ScenarioHour(kind, b, pos, i) ==
    CASE kind = "restart" -> pos
      [] kind = "running" -> i - 1
      [] kind = "uneven" -> (pos * (pos + 1)) \div 2
      [] kind = "reversed" -> 19 - pos

ScenarioBiomass(kind, b, pos) ==
    CASE kind = "linear" -> 1 + pos
      [] kind = "convex" -> pos * pos + b
      [] kind = "offset" -> 2 * pos + 30 * b
      [] kind = "decay" -> 40 - pos
      [] kind = "plateau" -> Min2(pos, 5)

ScenarioDataset(layout, hour, biomass) ==
    LET b(i) == ScenarioBatch(layout, i)
        pos(i) == ScenarioPos(layout, i)
    IN << Col("Batch", "object",
              [i \in 1..40 |-> IF b(i) = 0 THEN Str("B1") ELSE Str("B2")]),
          Col("Hour", "float64",
              [i \in 1..40 |-> Num(ScenarioHour(hour, b(i), pos(i), i))]),
          Col("Biomass", "float64",
              [i \in 1..40 |-> Num(ScenarioBiomass(biomass, b(i), pos(i)))]) >>

ScenarioDatasets ==
    { ScenarioDataset(l, h, m) :
        <<l, h, m>> \in {"blocks", "interleaved"}
                        \X {"restart", "running", "uneven", "reversed"}
                        \X {"linear", "convex", "offset", "decay", "plateau"} }

\* A text column named "date" of 44 rows of which 21 hold a number (row 1, 3,
\* ..., 41: the numbers 1, 2, ..., 21) and the others "n/a", beside the row
\* number x. Of its 20 successive differences, `drops` are negative: the
\* 11th number, and with 2 drops also the 16th, is 0.
LogDataset(drops) ==
    << Col("date", "object",
           [i \in 1..44 |->
               IF i % 2 = 0 \/ i > 41 THEN Str("n/a")
               ELSE IF (i = 21 /\ drops >= 1) \/ (i = 31 /\ drops >= 2) THEN Str("0")
               ELSE Str(ToString((i + 1) \div 2))]),
       Col("x", "int64", [i \in 1..44 |-> Num(i)]) >>

LogDatasets == { LogDataset(drops) : drops \in 0..2 }

\* Datasets for the quality score, of 12 rows: the time column elapsed, evenly
\* spaced or with three long gaps at the end; valve, zero on 3 rows of 4; and
\* `flats` constant columns level1, level2, ...
MaxFlat == 6       \* most constant columns of a quality dataset

QualityDataset(kind, flats) ==
    << Col("elapsed", "float64",
           [i \in 1..12 |-> IF kind = "even" \/ i <= 9 THEN Num(i)
                            ELSE Num(9 + 30 * (i - 9))]),
       Col("valve", "float64",
           [i \in 1..12 |-> IF i % 4 = 0 THEN Num(1) ELSE Num(0)]) >>
    \o Tuple([c \in 1..flats |->
           Col("level" \o ToString(c), "float64", [i \in 1..12 |-> Num(7)])])

QualityDatasets ==
    { QualityDataset(kind, flats) :
        <<kind, flats>> \in {"even", "bursts"} \X {0, 1, MaxFlat} }

\* Datasets for the relationships: three variables a, b, c of 6 rows with
\* |r(b, c)| > |r(a, b)| > |r(a, c)|, and a fourth, k, constant or not
RelationDataset(kind) ==
    << Col("a", "int64", MapSeq(<<1, 2, 3, 4, 5, 6>>, Num)),
       Col("b", "int64", MapSeq(<<2, 1, 4, 3, 6, 5>>, Num)),
       Col("c", "int64", MapSeq(<<3, 1, 4, 2, 6, 5>>, Num)),
       Col("k", "int64", MapSeq(IF kind = "constant" THEN <<7, 7, 7, 7, 7, 7>>
                                ELSE <<1, 6, 2, 5, 3, 4>>, Num)) >>

RelationDatasets == { RelationDataset(kind) : kind \in {"constant", "varying"} }

\* Four runs of three rows and a measurement of which run r2 (and in the
\* "sparse" table run r3 too) has only two readings; without a time column
\* the time of a row is its position within its run.
TrendDataset(kind) ==
    LET run(b, v) == <<Num(v), Num(v), Num(v)>>
        gap == <<Num(9), NaN, Num(9)>>
        level == CASE kind = "rising" -> <<1, 2, 3>>
                   [] kind = "falling" -> <<3, 2, 1>>
                   [] kind = "peak" -> <<1, 3, 1>>
                   [] OTHER -> <<1, 2, 3>>
    IN << Col("run", "object",
              [i \in 1..12 |-> Str("r" \o ToString((i - 1) \div 3 + 1))]),
          Col("yield", "float64",
              run(1, level[1]) \o gap
                 \o (IF kind = "sparse" THEN gap ELSE run(3, level[2]))
                 \o run(4, level[3])) >>

TrendDatasets == { TrendDataset(kind) : kind \in {"rising", "falling", "peak", "sparse"} }

Datasets ==
    CatalogueDatasets \cup ScenarioDatasets \cup LogDatasets \cup QualityDatasets
        \cup RelationDatasets \cup TrendDatasets

-----------------------------------------------------------------------------
(* The analyzer as a state machine *)

Self == [df |-> df, time_col |-> time_col, batch_col |-> batch_col,
         numeric_cols |-> numeric_cols, categorical_cols |-> categorical_cols]

NotCalled == [called |-> FALSE]
Called(v) == [called |-> TRUE, value |-> v]

Idle == fn = "none" /\ arg = None /\ out = NotCalled

\* DatasetAnalyzer(df) on a parsed table
Init ==
    /\ df \in Datasets
    /\ time_col = None
    /\ batch_col = None
    /\ numeric_cols = <<>>
    /\ categorical_cols = <<>>
    /\ standardized_data = None
    /\ calls = 0
    /\ status = "constructed"
    /\ result = None
    /\ Idle

SetSelf(b) ==
    /\ df' = b.df
    /\ time_col' = b.time_col
    /\ batch_col' = b.batch_col
    /\ numeric_cols' = b.numeric_cols
    /\ categorical_cols' = b.categorical_cols

\* the object and the module state after a call of analyze() that ended as r
Returns(r) ==
    /\ ~IsRaise(r.returned)
    /\ SetSelf(r.analyzer)
    /\ standardized_data' = r.standardized_data
    /\ result' = r.returned

Raises(r) ==
    /\ IsRaise(r.returned)
    /\ SetSelf(r.analyzer)
    /\ standardized_data' = r.standardized_data

\* a call of _infer_columns() on the object
InferColumns ==
    /\ status \in {"constructed", "inferred"}
    /\ calls < MaxCalls
    /\ SetSelf(_infer_columns(Self))
    /\ calls' = calls + 1
    /\ status' = "inferred"
    /\ UNCHANGED <<standardized_data, result, fn, arg, out>>

\* analyzer.analyze() on the freshly constructed object, returning its
\* document
AnalyzeReturns ==
    /\ status = "constructed"
    /\ Returns(analyze(Self))
    /\ calls' = calls + 1
    /\ status' = "analyzed"
    /\ UNCHANGED <<fn, arg, out>>

\* analyzer.analyze() on the freshly constructed object, an exception
\* propagating out of it
AnalyzeRaises ==
    /\ status = "constructed"
    /\ Raises(analyze(Self))
    /\ calls' = calls + 1
    /\ status' = "failed"
    /\ UNCHANGED <<result, fn, arg, out>>

Next == InferColumns \/ AnalyzeReturns \/ AnalyzeRaises

Spec == Init /\ [][Next]_vars

-----------------------------------------------------------------------------
(* The methods called on their own: one call of one method on one input *)

MaxSeries == 3     \* most cells of a series given to detect_flatline
MaxBatches == 3    \* most batches of a batch_metrics dict
MaxMetric == 2     \* largest metric value of a batch
MaxPhaseSeries == 12   \* longest series of segment_phases
MaxOutlierBatches == 5  \* most batches given to detect_outlier_batches

SeqsUpTo(S, n) == UNION {[1..k -> S] : k \in 0..n}

\* series: missing cells, zeros, a pair of distinct small values and a pair of
\* nearly equal large ones
SeriesCells == {NaN, Num(0), Num(5), Num(6), Num(1000), Num(1001)}
SeriesInputs == SeqsUpTo(SeriesCells, MaxSeries)

\* the metrics of one batch: without the ranked key, or with a value for it
MetricDicts == {[min_value |-> 0]} \cup {[max_value |-> v] : v \in 0..MaxMetric}

BatchMetricsInputs ==
    { Tuple([i \in DOMAIN m |-> [batch_id |-> "B" \o ToString(i), metrics |-> m[i]]]) :
        m \in SeqsUpTo(MetricDicts, MaxBatches) }

RankInputs ==
    [batch_metrics : BatchMetricsInputs, metric_key : {"max_value"},
     higher_is_better : BOOLEAN]

OutlierInputs ==
    { Tuple([i \in DOMAIN m |-> [batch_id |-> "B" \o ToString(i), metrics |-> m[i]]]) :
        m \in SeqsUpTo(MetricDicts, MaxOutlierBatches) }

\* batch_metrics for compute_best_batch_per_metric: every batch without
\* metrics (the {} of a batch of fewer than 2 values) or with all four
BestMetricDicts ==
    {<<>>} \cup
    {[max_value |-> p, integrated_value |-> q, mean_rate |-> 0, rate_stability |-> p] :
        <<p, q>> \in {0, 1} \X {0, 1}}

BestInputs ==
    { Tuple([i \in DOMAIN m |-> [batch_id |-> "B" \o ToString(i), metrics |-> m[i]]]) :
        m \in SeqsUpTo(BestMetricDicts, MaxBatches) }

\* the series segment_phases is called on: MaxPhaseSeries - 3 to
\* MaxPhaseSeries samples that are 0 or 1, at the times 0, 1, 2, ...
PhaseInputs ==
    UNION { {Tuple(s) : s \in [1..n -> {0, 1}]} :
                n \in (MaxPhaseSeries - 3)..MaxPhaseSeries }

\* the tables _infer_columns is called on
InferInputs == CatalogueDatasets \cup ScenarioDatasets \cup LogDatasets

InitUnit ==
    /\ df = <<>>
    /\ time_col = None
    /\ batch_col = None
    /\ numeric_cols = <<>>
    /\ categorical_cols = <<>>
    /\ standardized_data = None
    /\ calls = 0
    /\ status = "unit"
    /\ result = None
    /\ out = NotCalled
    /\ \/ fn = "_infer_columns" /\ arg \in InferInputs
       \/ fn = "detect_flatline" /\ arg \in SeriesInputs
       \/ fn = "rank_batches" /\ arg \in RankInputs
       \/ fn = "detect_outlier_batches" /\ arg \in OutlierInputs
       \/ fn = "compute_best_batch_per_metric" /\ arg \in BestInputs
       \/ fn = "segment_phases" /\ arg \in PhaseInputs

Returned(v) ==
    /\ out' = Called(v)
    /\ UNCHANGED <<df, time_col, batch_col, numeric_cols, categorical_cols,
                   standardized_data, calls, status, result, fn, arg>>

\* DatasetAnalyzer(arg)._infer_columns(), returning the analyzer it leaves
Call_infer_columns ==
    /\ fn = "_infer_columns" /\ ~out.called
    /\ Returned(_infer_columns(NewAnalyzer(arg)))

\* DataQualityAnalyzer.detect_flatline(arg)
Call_detect_flatline ==
    /\ fn = "detect_flatline" /\ ~out.called
    /\ Returned(detect_flatline(arg))

\* BatchComparisonAnalyzer.rank_batches(**arg)
Call_rank_batches ==
    /\ fn = "rank_batches" /\ ~out.called
    /\ Returned(rank_batches(arg.batch_metrics, arg.metric_key, arg.higher_is_better))

\* BatchComparisonAnalyzer.detect_outlier_batches(arg, "max_value")
Call_detect_outlier_batches ==
    /\ fn = "detect_outlier_batches" /\ ~out.called
    /\ Returned(detect_outlier_batches(arg, "max_value"))

\* GlobalMetricsAnalyzer.compute_best_batch_per_metric(arg, "v")
Call_compute_best_batch_per_metric ==
    /\ fn = "compute_best_batch_per_metric" /\ ~out.called
    /\ Returned(compute_best_batch_per_metric(arg, "v"))

\* TemporalAnalyzer.segment_phases(np.arange(len(arg)), arg)
Call_segment_phases ==
    /\ fn = "segment_phases" /\ ~out.called
    /\ Returned(segment_phases(Tuple([i \in DOMAIN arg |-> i - 1]), arg))

NextUnit ==
    \/ Call_infer_columns
    \/ Call_detect_flatline
    \/ Call_rank_batches
    \/ Call_detect_outlier_batches
    \/ Call_compute_best_batch_per_metric
    \/ Call_segment_phases

SpecUnit == InitUnit /\ [][NextUnit]_vars

-----------------------------------------------------------------------------
(* The /analyze request handler of main.py *)

\* HTTPException(status_code, detail)
HTTPException(status_code, detail) == [status_code |-> status_code, detail |-> detail]

\* str.endswith
endswith(s, suffix) ==
    Len(s) >= Len(suffix) /\ SubSeq(s, Len(s) - Len(suffix) + 1, Len(s)) = suffix

\* contents.decode(encoding) succeeds: latin-1 decodes every byte string
\* (and cp1252 is tried after it only)
Decodes(contents, encoding) == encoding = "utf-8" => contents.utf8

\* lines 134-140: the first of the three encodings that decodes, else None
decoded_contents(contents) ==
    LET encodings == <<"utf-8", "latin-1", "cp1252">>
        ok == SelectSeq(encodings, LAMBDA e : Decodes(contents, e))
    IN IF ok = <<>> THEN None ELSE Head(ok)

\* lines 182-190: the column names stripped, and the text columns of which
\* more than half parses turned numeric
CleanTable(d) ==
    Tuple([i \in DOMAIN d |->
        LET c == [d[i] EXCEPT !.name = Strip(d[i].name)]
        IN IF ~is_numeric_dtype(c)
           THEN LET converted == to_numeric(c)
                IN IF 2 * Len(dropna(converted.values)) > NRows(d)
                   THEN converted ELSE c
           ELSE c])

\* variant of the checks of lines 196-200 that accepts a single column
CheckTable_any_width(d) ==
    IF d = <<>> \/ NRows(d) = 0
    THEN [rejected |-> TRUE, response |-> HTTPException(400, "Dataset is empty")]
    ELSE [rejected |-> FALSE, df |-> d]

\* lines 196-200: df.empty (no column or no row) and fewer than 2 columns
CheckTable(d) ==
    IF d = <<>> \/ NRows(d) = 0
    THEN [rejected |-> TRUE, response |-> HTTPException(400, "Dataset is empty")]
    ELSE IF Len(d) < 2
    THEN [rejected |-> TRUE,
          response |-> HTTPException(400, "Dataset must have at least 2 columns")]
    ELSE [rejected |-> FALSE, df |-> d]

\* lines 127-200 on a request: the HTTPException raised or the table the
\* analyzer is constructed on. What detect_data_start_row and pd.read_csv
\* make of the decoded text is part of the request: a table or an exception.
ParseRequest(request) ==
    IF ~endswith(request.filename, ".csv")
    THEN [rejected |-> TRUE,
          response |-> HTTPException(400, "Only CSV files are supported")]
    ELSE IF decoded_contents(request.contents) = None
    THEN [rejected |-> TRUE,
          response |-> HTTPException(400, "Failed to decode CSV file")]
    ELSE IF request.contents.parsed.raises
    THEN [rejected |-> TRUE,
          response |-> HTTPException(400, "Failed to parse CSV")]
    ELSE CheckTable(CleanTable(request.contents.parsed.table))

\* tables read_csv can return besides the datasets: a header without rows,
\* a single column, and a table whose names carry blanks and whose text
\* columns hold numbers
DegenerateTables ==
    { << Col("Time", "object", <<>>), Col("x", "object", <<>>) >>,
      << Col("x", "int64", MapSeq(<<1, 2, 3, 4, 5, 6>>, Num)) >>,
      << Col(" Time ", "object", MapSeq(<<"0", "1", "2", "3", "4", "5">>, Str)),
         Col("x ", "object", MapSeq(<<"1", "3", "n/a", "4", "n/a", "8">>, Str)) >> }

RequestTables == {d \in Datasets : Len(d) <= 2} \cup DegenerateTables

\* the uploads: a file name and contents that are or are not UTF-8 and that
\* read_csv turns into a table or fails on
Requests ==
    { [filename |-> f, contents |-> [utf8 |-> u, parsed |-> p]] :
        <<f, u, p>> \in {"runs.csv", "runs.CSV", "csv"} \X BOOLEAN \X
            ({[raises |-> TRUE]} \cup {[raises |-> FALSE, table |-> d] : d \in RequestTables}) }

\* a request has arrived; no analyzer exists
InitRequest ==
    /\ fn = "analyze_dataset"
    /\ arg \in Requests
    /\ out = NotCalled
    /\ df = <<>>
    /\ time_col = None
    /\ batch_col = None
    /\ numeric_cols = <<>>
    /\ categorical_cols = <<>>
    /\ standardized_data = None
    /\ calls = 0
    /\ status = "received"
    /\ result = None

\* lines 127-200 raise an HTTPException
RequestRejected ==
    /\ status = "received"
    /\ ParseRequest(arg).rejected
    /\ out' = Called(ParseRequest(arg).response)
    /\ status' = "rejected"
    /\ UNCHANGED <<df, time_col, batch_col, numeric_cols, categorical_cols,
                   standardized_data, calls, result, fn, arg>>

\* line 203: DatasetAnalyzer(df)
RequestConstructs ==
    /\ status = "received"
    /\ ~ParseRequest(arg).rejected
    /\ SetSelf(NewAnalyzer(ParseRequest(arg).df))
    /\ status' = "constructed"
    /\ UNCHANGED <<standardized_data, calls, result, fn, arg, out>>

\* lines 204-209: analyze() returns and the insights are the response (its
\* body, the document after clean_for_json, is not kept)
RequestAnswered ==
    /\ status = "constructed"
    /\ Returns(analyze(Self))
    /\ calls' = calls + 1
    /\ status' = "analyzed"
    /\ out' = Called([status_code |-> 200, detail |-> ""])
    /\ UNCHANGED <<fn, arg>>

\* lines 211-214: an exception of the analysis becomes a 500
RequestFails ==
    /\ status = "constructed"
    /\ Raises(analyze(Self))
    /\ calls' = calls + 1
    /\ status' = "failed"
    /\ out' = Called(HTTPException(500, "Analysis failed"))
    /\ UNCHANGED <<result, fn, arg>>

NextRequest ==
    \/ RequestRejected
    \/ RequestConstructs
    \/ RequestAnswered
    \/ RequestFails

SpecRequest == InitRequest /\ [][NextRequest]_vars

-----------------------------------------------------------------------------

(* Properties *)

\* ratios with positive denominators
RatioLeq(p, q) == p.num * q.den <= q.num * p.den
IsOne(p) == p.num = p.den

\* the dataset of the end-to-end scenario: columns Batch, Hour, Biomass, 20
\* rows of B1 and 20 of B2, Hour and Biomass strictly increasing along the
\* rows of each batch
IsScenario(d) ==
    /\ Names(d) = <<"Batch", "Hour", "Biomass">>
    /\ NRows(d) = 40
    /\ LET batch == Column(d, "Batch").values
           hour == Column(d, "Hour").values
           biomass == Column(d, "Biomass").values
       IN /\ \A b \in {Str("B1"), Str("B2")} : CountOf(batch, b) = 20
          /\ \A i, j \in 1..40 :
                (i < j /\ batch[i] = batch[j]) =>
                    (hour[i].v < hour[j].v /\ biomass[i].v < biomass[j].v)

(* C1: on the scenario dataset (Batch, Hour, Biomass; B1 and B2 of 20 rows,  *)
(* Biomass strictly increasing within each batch) analyze() returns, picks  *)
(* Batch as batch column and Hour as time column, reports batch_count = 2   *)
(* and is_multi_batch, is_growth_like for B1 and for B2, and no global      *)
(* batch trend for Biomass (available = false).                             *)
C1_Scenario ==
    (status \in {"analyzed", "failed"} /\ IsScenario(df)) =>
        /\ status = "analyzed"
        /\ batch_col = "Batch"
        /\ time_col = "Hour"
        /\ result.overview.batch_count = 2
        /\ result.overview.is_multi_batch
        /\ \A b \in {"B1", "B2"} :
              result.temporal.variables["Biomass"].batches[b]
                    .growth_metrics.is_growth_like
        /\ result.global_scores.batch_trends["Biomass"].available = FALSE

\* the scenario analysed, its rows interleaved between the two batches
C1_Witness ==
    /\ status = "analyzed"
    /\ IsScenario(df)
    /\ df[1].values[2] = Str("B2")

\* the orders the columns of d can come in
ColumnOrders(d) ==
    {Tuple([i \in DOMAIN d |-> d[p[i]]]) : p \in Permutations(DOMAIN d)}

\* every order of the columns of d gives the batch and time column of a
SameRoles(d, a) ==
    \A e \in ColumnOrders(d) :
        /\ _infer_columns(NewAnalyzer(e)).batch_col = a.batch_col
        /\ _infer_columns(NewAnalyzer(e)).time_col = a.time_col

\* the columns each loop of _infer_columns can stop at
BatchNameCandidates(d) ==
    {i \in DOMAIN d : HasKeyword(batch_keywords, Strip(Lower(d[i].name)))}
BatchLikeCandidates(d) == {i \in DOMAIN d : _is_batch_like(d, d[i])}
TimeCandidates(d, batch) ==
    {i \in DOMAIN d :
        LET c == CoerceColumns(d, batch)[i]
        IN /\ c.name # batch
           /\ HasTimeKeyword(Strip(Lower(c.name)))
           /\ (is_numeric_dtype(c) \/ _is_monotonic_numeric(c))}

\* no loop has two columns to choose between
SingleCandidates(d, batch) ==
    /\ Cardinality(BatchNameCandidates(d)) <= 1
    /\ (BatchNameCandidates(d) = {} => Cardinality(BatchLikeCandidates(d)) <= 1)
    /\ Cardinality(TimeCandidates(d, batch)) <= 1

(* C2 as stated: for every dataset and every permutation of its columns,    *)
(* _infer_columns selects the same batch column and the same time column    *)
(* as for the unpermuted dataset.                                           *)
C2_AnyOrder ==
    (fn = "_infer_columns" /\ out.called) => SameRoles(arg, out.value)

(* C2 amended: the selection is the same under every permutation of the     *)
(* columns when at most one column name holds a batch keyword, at most one  *)
(* column is batch-like when no name does, and at most one column other     *)
(* than the batch column qualifies as time column.                          *)
C2_SingleCandidates ==
    (fn = "_infer_columns" /\ out.called
        /\ SingleCandidates(arg, out.value.batch_col)) =>
        SameRoles(arg, out.value)

\* roles inferred on a dataset of several columns without a choice to make
C2_Witness ==
    /\ fn = "_infer_columns" /\ out.called
    /\ SingleCandidates(arg, out.value.batch_col)
    /\ Len(arg) >= 3
    /\ out.value.batch_col # None
    /\ out.value.time_col # None

(* C3: a second run of _infer_columns on an analyzer whose roles are        *)
(* inferred leaves the time column, the batch column, numeric_cols and      *)
(* categorical_cols as they were.                                           *)
C3_Idempotent ==
    [][(status = "inferred" /\ status' = "inferred") =>
          /\ time_col' = time_col
          /\ batch_col' = batch_col
          /\ numeric_cols' = numeric_cols
          /\ categorical_cols' = categorical_cols]_vars

(* C4: after _infer_columns has run once, the time column and the batch     *)
(* column are columns of the dataset (or absent) and differ, every other    *)
(* column is listed exactly once in numeric_cols and categorical_cols       *)
(* taken together, and the time and batch columns are in neither list.      *)
C4_RolesPartition ==
    calls = 1 =>
        /\ time_col \in Range(Names(df)) \cup {None}
        /\ batch_col \in Range(Names(df)) \cup {None}
        /\ (time_col # None => time_col # batch_col)
        /\ Range(numeric_cols) \cup Range(categorical_cols) \subseteq Range(Names(df))
        /\ \A c \in Range(Names(df)) :
              CountOf(numeric_cols, c) + CountOf(categorical_cols, c) =
                  IF c \in {time_col, batch_col} THEN 0 ELSE 1

\* both roles filled and a column left to classify
C4_Witness ==
    /\ calls = 1
    /\ status = "inferred"
    /\ time_col # None
    /\ batch_col # None
    /\ Len(numeric_cols) + Len(categorical_cols) = 1

DocumentKeys ==
    {"overview", "quality", "temporal", "relationships", "batch_comparison",
     "global_scores", "plot_ready"}

(* C5: for every dataset, whatever roles were inferred, analyze() returns   *)
(* a document that holds all seven top-level keys.                          *)
C5_AllKeys ==
    status \in {"analyzed", "failed"} =>
        (status = "analyzed" /\ DOMAIN result = DocumentKeys)

\* the batch column holds fewer than two distinct values
SingleBatch ==
    Cardinality({v \in Range(Column(df, batch_col).values) : ~isna(v)}) < 2

(* C6: without a time column the temporal section is {available: false};    *)
(* without a batch column, or with fewer than two distinct batch values,    *)
(* batch_comparison and global_scores report available = false; and in      *)
(* each of these cases analyze() completes and returns its document.        *)
C6_AbsentRoles ==
    (status \in {"analyzed", "failed"}
        /\ (time_col = None \/ batch_col = None \/ SingleBatch)) =>
        /\ status = "analyzed"
        /\ DOMAIN result = DocumentKeys
        /\ (time_col = None => result.temporal = [available |-> FALSE])
        /\ ((batch_col = None \/ SingleBatch) =>
               /\ ~result.batch_comparison.available
               /\ ~result.global_scores.available)

(* C7: for a series whose non-null values have range zero (max = min), a    *)
(* single non-null value included, detect_flatline reports                  *)
(* is_flatlined = true with flatline_pct = 100.                             *)
C7_ZeroRange ==
    (fn = "detect_flatline" /\ out.called
        /\ dropna(arg) # <<>>
        /\ SeqMax(Floats(dropna(arg))) = SeqMin(Floats(dropna(arg)))) =>
        /\ out.value.is_flatlined
        /\ out.value.flatline_pct = 100

\* r1 == r2 as floats (NaN differs from everything)
CorrEqual(r1, r2) ==
    /\ ~IsNaNCorr(r1) /\ ~IsNaNCorr(r2)
    /\ (r1.sxy > 0) = (r2.sxy > 0) /\ (r1.sxy < 0) = (r2.sxy < 0)
    /\ ~AbsGreater(r1, r2) /\ ~AbsGreater(r2, r1)

\* r == -1.0
IsMinusOne(r) ==
    /\ ~IsNaNCorr(r) /\ r.sxy < 0
    /\ ~ProdLess(Abs(r.sxy), Abs(r.sxy), r.sxx, r.syy)
    /\ ~ProdLess(r.sxx, r.syy, Abs(r.sxy), Abs(r.sxy))

\* the same correlation value, NaN being compared as a value
SameCorr(r1, r2) == (IsNaNCorr(r1) /\ IsNaNCorr(r2)) \/ CorrEqual(r1, r2)

(* C8: every reported pair whose base correlation is available has a        *)
(* lagged-correlation result (max_lag = 5) with a lag-0 entry whose         *)
(* correlation equals the pair's Pearson r.                                 *)
C8_LagZero ==
    status = "analyzed" =>
        \A k \in DOMAIN result.relationships :
            result.relationships[k].correlation.available =>
                /\ result.relationships[k].lagged_correlation.available
                /\ \E j \in DOMAIN result.relationships[k].lagged_correlation.lag_profile :
                      LET p == result.relationships[k].lagged_correlation.lag_profile[j]
                      IN /\ p.lag = 0
                         /\ SameCorr(p.correlation,
                                     result.relationships[k].correlation.pearson.r)

\* y = -x on every row, x not constant
AntiCorrelated(d, col_x, col_y) ==
    LET x == Column(d, col_x).values
        y == Column(d, col_y).values
    IN /\ \A i \in DOMAIN x : x[i].k = "num" /\ y[i].k = "num" /\ y[i].v = -x[i].v
       /\ \E i, j \in DOMAIN x : x[i] # x[j]

(* C9: for two numeric columns with y = -x and at least 5 rows the          *)
(* relationship analysis reports Pearson r = -1 and a best lag of 0.        *)
C9_AntiCorrelated ==
    status = "analyzed" =>
        \A col_x, col_y \in Range(numeric_cols) :
            (AntiCorrelated(df, col_x, col_y) /\ NRows(df) >= 5) =>
                \E k \in DOMAIN result.relationships :
                    LET e == result.relationships[k]
                    IN /\ {e.var_x, e.var_y} = {col_x, col_y}
                       /\ IsMinusOne(e.correlation.pearson.r)
                       /\ e.lagged_correlation.available
                       /\ e.lagged_correlation.best_lag = 0

(* C10: in a list returned by rank_batches normalized_score does not        *)
(* increase as rank increases, the entry of rank 1 scores 1.0, and a list   *)
(* of a single batch scores that batch 1.0.                                 *)
C10_RankScores ==
    (fn = "rank_batches" /\ out.called) =>
        /\ \A i, j \in DOMAIN out.value :
              out.value[i].rank < out.value[j].rank =>
                  RatioLeq(out.value[j].normalized_score,
                           out.value[i].normalized_score)
        /\ \A i \in DOMAIN out.value :
              out.value[i].rank = 1 => IsOne(out.value[i].normalized_score)
        /\ (Len(out.value) = 1 => IsOne(out.value[1].normalized_score))

\* three batches ranked, two of them with the same value
C10_Witness ==
    /\ fn = "rank_batches" /\ out.called
    /\ Len(out.value) = 3
    /\ \E i, j \in DOMAIN out.value : i # j /\ out.value[i].value = out.value[j].value

(* C11: rank_batches (higher is better) lists the batches that carry the    *)
(* metric in descending value with ranks 1..N, and for N > 1 the batch of   *)
(* rank k scores 1 - (k-1)/(N-1), the last-ranked batch scoring 0.          *)
C11_ScoreFormula ==
    (fn = "rank_batches" /\ out.called /\ arg.higher_is_better) =>
        /\ \A i \in DOMAIN out.value : out.value[i].rank = i
        /\ \A i \in 1..(Len(out.value) - 1) :
              out.value[i].value >= out.value[i + 1].value
        /\ (Len(out.value) > 1 =>
              \A i \in DOMAIN out.value :
                  out.value[i].normalized_score.num * (Len(out.value) - 1) =
                      (Len(out.value) - out.value[i].rank)
                          * out.value[i].normalized_score.den)

Carrying(batch_metrics, key) ==
    {i \in DOMAIN batch_metrics : key \in DOMAIN batch_metrics[i].metrics}

CarriedValues(batch_metrics, key) ==
    LET F[i \in 0..Len(batch_metrics)] ==
            IF i = 0 THEN <<>>
            ELSE IF i \in Carrying(batch_metrics, key)
                 THEN Append(F[i - 1], batch_metrics[i].metrics[key])
                 ELSE F[i - 1]
    IN F[Len(batch_metrics)]

\* 8 * value outside 8 * [Q1 - 1.5 * IQR, Q3 + 1.5 * IQR]
OutsideFences(v, values) ==
    LET q1 == percentile(values, 1)
        q3 == percentile(values, 3)
    IN \/ 8 * v < 2 * q1 - 3 * (q3 - q1)
       \/ 8 * v > 2 * q3 + 3 * (q3 - q1)

(* C12: detect_outlier_batches returns the empty list when fewer than 4     *)
(* batches carry the metric, and with 4 or more exactly the batches whose   *)
(* value lies outside [Q1 - 1.5 * IQR, Q3 + 1.5 * IQR].                     *)
C12_Outliers ==
    (fn = "detect_outlier_batches" /\ out.called) =>
        IF Cardinality(Carrying(arg, "max_value")) < 4
        THEN out.value = <<>>
        ELSE /\ Range(out.value) =
                  { arg[i].batch_id : i \in
                      { j \in Carrying(arg, "max_value") :
                          OutsideFences(arg[j].metrics["max_value"],
                                        CarriedValues(arg, "max_value")) } }
             /\ \A i, j \in DOMAIN out.value :
                  out.value[i] = out.value[j] => i = j

C12_Witness ==
    /\ fn = "detect_outlier_batches" /\ out.called
    /\ Cardinality(Carrying(arg, "max_value")) >= 4
    /\ Len(arg) > Cardinality(Carrying(arg, "max_value"))
    /\ out.value # <<>>
    /\ Len(out.value) < Cardinality(Carrying(arg, "max_value"))

AllNull(d, col) == \A i \in 1..NRows(d) : isna(Column(d, col).values[i])

(* C13: a numeric column whose values are all null has the quality entry    *)
(* missing_pct = 100, density type sparse, and mean, std, min and max None. *)
C13_AllNull ==
    status = "analyzed" =>
        \A i \in DOMAIN result.quality.variables :
            LET q == result.quality.variables[i]
            IN AllNull(df, q.variable) =>
                /\ q.missing_pct.num = 100 * q.missing_pct.den
                /\ q.density.type = "sparse"
                /\ q.stats.mean = None
                /\ q.stats.std = None
                /\ q.stats.min = None
                /\ q.stats.max = None

C13_Witness ==
    /\ status = "analyzed"
    /\ \E i \in DOMAIN result.quality.variables :
          AllNull(df, result.quality.variables[i].variable)
    /\ \E i \in DOMAIN result.quality.variables :
          ~AllNull(df, result.quality.variables[i].variable)

Classes == {"improving", "degrading", "stable"}

Votes(trends, class) ==
    Cardinality({c \in DOMAIN trends :
        trends[c].available /\ trends[c].trend = class})

MajorityVote(trends) ==
    IF \E class \in Classes :
          \A other \in Classes \ {class} : Votes(trends, class) > Votes(trends, other)
    THEN CHOOSE class \in Classes :
          \A other \in Classes \ {class} : Votes(trends, class) > Votes(trends, other)
    ELSE "stable"

(* C14: the overall assessment is the majority vote over the per-variable   *)
(* batch-trend classifications: the verdict is the classification held by   *)
(* more variables than any other, and stable when no classification leads.  *)
C14_MajorityVote ==
    (status = "analyzed" /\ result.global_scores.available
       /\ DOMAIN result.global_scores.batch_trends # {}) =>
        result.global_scores.overall_assessment.trend =
            MajorityVote(result.global_scores.batch_trends)

ExpectedRecord(i, var) ==
    [batch |-> IF batch_col = None THEN "all"
               ELSE str(Column(df, batch_col).values[i], Column(df, batch_col).dtype),
     time |-> IF time_col = None THEN Num(i - 1)
              ELSE Column(df, time_col).values[i],
     variable |-> var,
     value |-> Column(df, var).values[i]]

(* C15: canonicalization emits exactly one record for every (row, numeric   *)
(* column) of the dataset, rows x numeric columns in all; its batch is the  *)
(* string form of the row's batch value, or "all" without a batch column,   *)
(* and its time the row's time value, or the row index without a time       *)
(* column.                                                                  *)
C15_OneRecordPerCell ==
    status = "analyzed" =>
        /\ Len(standardized_data) = NRows(df) * Len(numeric_cols)
        /\ \A i \in 1..NRows(df) : \A c \in DOMAIN numeric_cols :
              Cardinality({k \in DOMAIN standardized_data :
                  standardized_data[k] = ExpectedRecord(i, numeric_cols[c])}) =
              Cardinality({j \in 1..NRows(df) :
                  ExpectedRecord(j, numeric_cols[c]) = ExpectedRecord(i, numeric_cols[c])})

\* the same for the datasets whose batch column has no missing value
C15_WithoutNullBatch ==
    (status = "analyzed" /\ batch_col # None
       /\ \A i \in 1..NRows(df) : ~isna(Column(df, batch_col).values[i])
       /\ numeric_cols # <<>>) =>
        /\ Len(standardized_data) = NRows(df) * Len(numeric_cols)
        /\ \A i \in 1..NRows(df) : \A c \in DOMAIN numeric_cols :
              Cardinality({k \in DOMAIN standardized_data :
                  standardized_data[k] = ExpectedRecord(i, numeric_cols[c])}) =
              Cardinality({j \in 1..NRows(df) :
                  ExpectedRecord(j, numeric_cols[c]) = ExpectedRecord(i, numeric_cols[c])})

DistinctValues(col) == {c \in Range(col.values) : ~isna(c)}

NamedBatch(d) ==
    {i \in DOMAIN d :
        \E k \in DOMAIN batch_keywords :
            Contains(batch_keywords[k], Strip(Lower(d[i].name)))}

PatternBatch(d) ==
    {i \in DOMAIN d :
        /\ d[i].dtype # "float64"
        /\ Cardinality(DistinctValues(d[i])) > 1
        /\ 10 * Cardinality(DistinctValues(d[i])) < NRows(d)
        /\ \A c \in DistinctValues(d[i]) :
              Cardinality({r \in 1..NRows(d) : d[i].values[r] = c}) > 5}

FirstOf(d, S) == d[CHOOSE i \in S : \A j \in S : i <= j].name

(* C16: the batch column is the first column in file order whose            *)
(* lower-cased, trimmed name contains a batch keyword; when no name does,   *)
(* the first column that is not floating-point, has more than 1 and fewer   *)
(* than 10% of the row count distinct values, each occurring more than 5    *)
(* times; and none when neither step selects a column.                      *)
C16_BatchColumn ==
    (fn = "_infer_columns" /\ out.called) =>
        out.value.batch_col =
            IF NamedBatch(arg) # {} THEN FirstOf(arg, NamedBatch(arg))
            ELSE IF PatternBatch(arg) # {} THEN FirstOf(arg, PatternBatch(arg))
            ELSE None

\* no name holds a keyword and the pattern selects a column that is not the
\* first of the file
C16_Witness ==
    /\ fn = "_infer_columns" /\ out.called
    /\ NamedBatch(arg) = {}
    /\ out.value.batch_col # None
    /\ arg[1].name # out.value.batch_col

\* at least 95% of the successive differences of the numbers of col are
\* non-negative, there being at least 2 numbers
MostlyNonDecreasing(col) ==
    LET data == Floats(dropna(to_numeric(col).values))
        diffs == Diff(data)
    IN /\ Len(data) >= 2
       /\ 100 * Cardinality({i \in DOMAIN diffs : diffs[i] >= 0}) >= 95 * Len(diffs)

TimeQualified(d, batch) ==
    {i \in DOMAIN d :
        /\ d[i].name # batch
        /\ \E k \in DOMAIN time_keywords :
              Contains(time_keywords[k], Lower(d[i].name))
        /\ (CoerceColumns(d, batch)[i].dtype \in {"int64", "float64"}
              \/ MostlyNonDecreasing(d[i]))}

(* C17: the time column is the first non-batch column in file order whose   *)
(* lower-cased name contains a time keyword and that is numeric or has at   *)
(* least 95% (exactly 95% included) of its successive differences           *)
(* non-negative after numeric coercion and null-drop, with at least 2       *)
(* valid points.                                                            *)
C17_TimeColumn ==
    (fn = "_infer_columns" /\ out.called) =>
        out.value.time_col =
            IF TimeQualified(arg, out.value.batch_col) # {}
            THEN arg[CHOOSE i \in TimeQualified(arg, out.value.batch_col) :
                    \A j \in TimeQualified(arg, out.value.batch_col) : i <= j].name
            ELSE None

\* at least half of the values of col parse as numbers
HalfParses(d, col) == 2 * Len(dropna(to_numeric(col).values)) >= NRows(d)

(* C18: a non-numeric column other than the batch column is coerced to      *)
(* numeric whenever at least 50% of its values parse as numbers (exactly    *)
(* 50% included) and is left as typed otherwise; the batch column is never  *)
(* coerced.                                                                 *)
C18_Coercion ==
    (fn = "_infer_columns" /\ out.called) =>
        \A i \in DOMAIN arg :
            out.value.df[i] =
                IF /\ arg[i].name # out.value.batch_col
                   /\ arg[i].dtype = "object"
                   /\ HalfParses(arg, arg[i])
                THEN to_numeric(arg[i])
                ELSE arg[i]

\* the entries of the quality document the overall score is about
Entries == result.quality.variables
Overall == result.quality.overall

\* sum of the missing percentages of the entries, as a multiple of 1/rows
MissingSum == SumSeq(Tuple([i \in DOMAIN Entries |-> Entries[i].missing_pct.num]))
HighMissing == MissingSum > 20 * NRows(df) * Len(Entries)
ModerateMissing == ~HighMissing /\ MissingSum > 5 * NRows(df) * Len(Entries)
Irregular ==
    Entries[1].sampling.available /\ Entries[1].sampling.regularity_below_03
Flatlined == Cardinality({i \in DOMAIN Entries : Entries[i].flatline.is_flatlined})
Offline == Cardinality({i \in DOMAIN Entries : Entries[i].density.type = "offline"})

ExpectedScore ==
    100 - (IF HighMissing THEN 20 ELSE IF ModerateMissing THEN 5 ELSE 0)
        - (IF Irregular THEN 10 ELSE 0)
        - 3 * (IF Flatlined > 5 THEN 5 ELSE Flatlined)

ExpectedFlags ==
    {"high_missing_data" : x \in {1} \cap (IF HighMissing THEN {1} ELSE {})}
    \cup {"moderate_missing_data" : x \in {1} \cap (IF ModerateMissing THEN {1} ELSE {})}
    \cup {"irregular_sampling" : x \in {1} \cap (IF Irregular THEN {1} ELSE {})}
    \cup {"flatlined_signals:" \o ToString(Flatlined) :
              x \in {1} \cap (IF Flatlined > 0 THEN {1} ELSE {})}
    \cup {"offline_signals:" \o ToString(Offline) :
              x \in {1} \cap (IF Offline > 0 THEN {1} ELSE {})}

ScoreAsStated ==
    /\ Overall.score = ExpectedScore
    /\ Overall.score \in 0..100
    /\ Range(Overall.flags) = ExpectedFlags
    /\ Len(Overall.flags) = Cardinality(ExpectedFlags)

(* C19 as stated: for every analyzed dataset the overall quality score is   *)
(* 100 minus 20 if the average missingness exceeds 20% (else minus 5 if it  *)
(* exceeds 5%), minus 10 if the sampling regularity score is available and  *)
(* below 0.3, minus 3 per flatlined variable up to 5 variables, nothing for *)
(* offline variables; it lies in 0..100 and the flags name exactly the      *)
(* penalties applied plus the offline count.                                *)
C19_EveryDataset ==
    status = "analyzed" =>
        IF Entries = <<>>
        THEN Overall.score = 100 /\ Overall.flags = <<>>
        ELSE ScoreAsStated

(* C19 amended: the same for every analyzed dataset with at least one       *)
(* numeric variable; a dataset without numeric variable scores 0 and has    *)
(* the single flag no_data.                                                 *)
C19_WithVariables ==
    status = "analyzed" =>
        IF Entries = <<>>
        THEN Overall.score = 0 /\ Overall.flags = <<"no_data">>
        ELSE ScoreAsStated

\* more than 5 flatlined variables, irregular sampling and an offline variable
C19_Witness ==
    /\ status = "analyzed"
    /\ Entries # <<>>
    /\ Flatlined > 5
    /\ Irregular
    /\ Offline > 0
    /\ Overall.score = 75

\* the relationships of the document and the pairs of the first 15 numeric
\* columns, first column first
Relationships == result.relationships
FirstColumns == SubSeq(numeric_cols, 1, Min2(15, Len(numeric_cols)))
ColumnPairs ==
    {<<FirstColumns[i], FirstColumns[j]>> :
        <<i, j>> \in {p \in (DOMAIN FirstColumns) \X (DOMAIN FirstColumns) : p[1] < p[2]}}

\* the base correlation of a pair of columns, and the pairs that have one
BaseCorrelation(pair) ==
    compute_correlations(Column(df, pair[1]).values, Column(df, pair[2]).values)
AvailablePairs == {pair \in ColumnPairs : BaseCorrelation(pair).available}
Listed == {<<Relationships[i].var_x, Relationships[i].var_y>> : i \in DOMAIN Relationships}

\* |r1| < |r2|, both being numbers
Weaker(r1, r2) == ~IsNaNCorr(r1) /\ ~IsNaNCorr(r2) /\ AbsGreater(r2, r1)

(* C20: the relationships list holds only pairs of the first 15 numeric     *)
(* columns whose base correlation is available, each at most once, in       *)
(* order of non-increasing |Pearson r|, at most 30 of them, and no pair     *)
(* left out is more strongly correlated than a pair listed.                 *)
C20_StrongestFirst ==
    status = "analyzed" =>
        /\ Listed \subseteq AvailablePairs
        /\ Cardinality(Listed) = Len(Relationships)
        /\ Len(Relationships) = Min2(30, Cardinality(AvailablePairs))
        /\ \A i, j \in DOMAIN Relationships :
              i < j => ~Weaker(Relationships[i].correlation.pearson.r,
                               Relationships[j].correlation.pearson.r)
        /\ \A pair \in AvailablePairs \ Listed : \A i \in DOMAIN Relationships :
              ~Weaker(Relationships[i].correlation.pearson.r,
                      BaseCorrelation(pair).pearson.r)

\* the same for the lists without a NaN coefficient
C20_WithoutNaN ==
    (status = "analyzed"
       /\ \A i \in DOMAIN Relationships :
             ~IsNaNCorr(Relationships[i].correlation.pearson.r)) =>
        /\ Listed \subseteq AvailablePairs
        /\ Cardinality(Listed) = Len(Relationships)
        /\ Len(Relationships) = Min2(30, Cardinality(AvailablePairs))
        /\ \A i, j \in DOMAIN Relationships :
              i < j => ~Weaker(Relationships[i].correlation.pearson.r,
                               Relationships[j].correlation.pearson.r)

\* the batches of batch_metrics that carry the metric, and its largest value
CarryingMetric(batch_metrics, metric) ==
    {i \in DOMAIN batch_metrics : metric \in DOMAIN batch_metrics[i].metrics}
Attains(batch_metrics, metric, i) ==
    /\ i \in CarryingMetric(batch_metrics, metric)
    /\ \A j \in CarryingMetric(batch_metrics, metric) :
          batch_metrics[j].metrics[metric] <= batch_metrics[i].metrics[metric]

(* C21: for each of the four metrics compute_best_batch_per_metric reports  *)
(* at most one best batch (one when a batch carries the metric), with the   *)
(* maximum value of the metric, and among the batches that attain the       *)
(* maximum it is the first in batch order.                                  *)
C21_FirstMaximum ==
    (fn = "compute_best_batch_per_metric" /\ out.called) =>
        \A m \in DOMAIN metric_keys :
            LET reported == {k \in DOMAIN out.value : out.value[k].metric = metric_keys[m]}
            IN /\ Cardinality(reported) <= 1
               /\ (reported = {}) = (CarryingMetric(arg, metric_keys[m]) = {})
               /\ \A k \in reported :
                    \E i \in DOMAIN arg :
                        /\ Attains(arg, metric_keys[m], i)
                        /\ \A j \in 1..(i - 1) : ~Attains(arg, metric_keys[m], j)
                        /\ out.value[k].best_batch = arg[i].batch_id
                        /\ out.value[k].value = arg[i].metrics[metric_keys[m]]

\* two batches attain the maximum of a metric and a batch before them does not
C21_Witness ==
    /\ fn = "compute_best_batch_per_metric" /\ out.called
    /\ Len(arg) = 3
    /\ ~Attains(arg, "max_value", 1)
    /\ Attains(arg, "max_value", 2)
    /\ Attains(arg, "max_value", 3)
    /\ Len(out.value) = 4

\* the batch trends of the document, the variables they cover, the batches
\* of the dataset in encounter order and, of these, the batches that have
\* more than 2 rows with both a time and a value of the variable
BatchTrends == result.global_scores.batch_trends
TrendColumns == Range(SubSeq(numeric_cols, 1, Min2(10, Len(numeric_cols))))
BatchesWithSamples(col) ==
    SelectSeq(BatchValues(Self), LAMBDA b : Len(GlobalPairs(Self, col, b)) > 2)

\* integrated_value of these batches, and its regression against 0, 1, 2, ...
IntegratedValues(col) ==
    MapSeq(BatchesWithSamples(col),
           LAMBDA b : integrated_value(SortByTime(GlobalPairs(Self, col, b))))
StatedTrend(y) ==
    LET n == Len(y)
        sx == SumSeq(Tuple([i \in 1..n |-> i - 1]))
        sy == SumSeq(y)
        sxy == n * SumSeq(Tuple([i \in 1..n |-> (i - 1) * y[i]])) - sx * sy
        sxx == n * SumSeq(Tuple([i \in 1..n |-> (i - 1) * (i - 1)])) - sx * sx
        syy == n * SumSeq(Tuple([i \in 1..n |-> y[i] * y[i]])) - sy * sy
    IN IF syy = 0 \/ ProdLess(100 * Abs(sxy), Abs(sxy), 9 * sxx, syy) THEN "stable"
       ELSE IF sxy > 0 THEN "improving"
       ELSE "degrading"

\* the classification of an available trend is the stated one
TrendAsStated(col) ==
    BatchTrends[col].available =>
        BatchTrends[col].trend = StatedTrend(IntegratedValues(col))

(* C22: the batch trend of a variable is available if and only if the       *)
(* dataset has at least 3 batches; when available it regresses              *)
(* integrated_value against the positions 0, 1, 2, ... in batch-encounter   *)
(* order and is stable when |r| < 0.3, else improving for a positive slope  *)
(* and degrading otherwise.                                                 *)
C22_ThreeBatches ==
    (status = "analyzed" /\ result.global_scores.available) =>
        /\ DOMAIN BatchTrends = TrendColumns
        /\ \A col \in TrendColumns :
              /\ BatchTrends[col].available = (Len(BatchValues(Self)) >= 3)
              /\ TrendAsStated(col)

\* C22 as the code has it: the trend is available if and only if at least 3
\* batches have more than 2 valid (time, value) samples of the variable, the
\* positions 0, 1, 2, ... being those among these batches
C22_ThreeBatchesWithSamples ==
    (status = "analyzed" /\ result.global_scores.available) =>
        /\ DOMAIN BatchTrends = TrendColumns
        /\ \A col \in TrendColumns :
              /\ BatchTrends[col].available = (Len(BatchesWithSamples(col)) >= 3)
              /\ TrendAsStated(col)

\* four batches of which three have samples, their integrated values falling
C22_Witness ==
    /\ status = "analyzed" /\ result.global_scores.available
    /\ "yield" \in TrendColumns
    /\ Len(BatchValues(Self)) = 4
    /\ Len(BatchesWithSamples("yield")) = 3
    /\ BatchTrends["yield"].available
    /\ BatchTrends["yield"].trend = "degrading"

\* the input rejections: file name, decoding, parse failure, empty table,
\* fewer than 2 columns
NotCsv == ~endswith(arg.filename, ".csv")
Undecodable == \A e \in {"utf-8", "latin-1", "cp1252"} : ~Decodes(arg.contents, e)
ParseFailure == arg.contents.parsed.raises
EmptyTable ==
    ~ParseFailure /\ (arg.contents.parsed.table = <<>>
                        \/ Len(arg.contents.parsed.table[1].values) = 0)
TooNarrow == ~ParseFailure /\ Len(arg.contents.parsed.table) < 2
InputRejected == NotCsv \/ Undecodable \/ ParseFailure \/ EmptyTable \/ TooNarrow
AnalysisReached == status \in {"constructed", "analyzed", "failed"}

(* C23: in the /analyze handler every rejected input (file name not ending  *)
(* in .csv, undecodable bytes, parse failure, empty table, fewer than 2     *)
(* columns) is answered with 400 and no DatasetAnalyzer is constructed for  *)
(* it; every error of the analysis is answered with 500; no request that    *)
(* reached the analysis is answered with 400 and no rejected input with 500 *)
C23_ErrorCodes ==
    fn = "analyze_dataset" =>
        /\ InputRejected => ~AnalysisReached /\ df = <<>>
        /\ (InputRejected /\ out.called) =>
              out.value.status_code = 400 /\ status = "rejected"
        /\ status = "failed" => out.called /\ out.value.status_code = 500
        /\ (AnalysisReached /\ out.called) => out.value.status_code \in {200, 500}
        /\ (out.called /\ out.value.status_code = 400) => InputRejected

\* a well-formed upload whose analysis raised
C23_Witness ==
    /\ fn = "analyze_dataset"
    /\ ~InputRejected
    /\ status = "failed"
    /\ out.called /\ out.value.status_code = 500

\* the samples first..last (0-based) are a maximal run of one trend type
MaximalRun(types, first, last) ==
    /\ 0 <= first /\ first <= last /\ last <= Len(types) - 1
    /\ \A i \in first..last : types[i + 1] = types[first + 1]
    /\ first = 0 \/ types[first] # types[first + 1]
    /\ last = Len(types) - 1 \/ types[last + 2] # types[last + 1]

(* C24: segment_phases returns maximal contiguous runs of samples of one    *)
(* trend type, each of at least 5 samples, in increasing start index and    *)
(* not overlapping, with 0 <= start_index <= end_index <= n-1; every such   *)
(* run of a series of 10 or more samples is returned, shorter runs are      *)
(* left out, and a series of fewer than 10 samples has no phases.           *)
C24_MaximalRuns ==
    (fn = "segment_phases" /\ out.called) =>
        LET n == Len(arg)
            phases == out.value
        IN /\ n < 10 => phases = <<>>
           /\ \A k \in DOMAIN phases :
                /\ MaximalRun(PhaseTypes(arg), phases[k].start_index, phases[k].end_index)
                /\ phases[k].end_index - phases[k].start_index + 1 >= 5
                /\ phases[k].phase_type = PhaseTypes(arg)[phases[k].start_index + 1]
           /\ \A k \in DOMAIN phases : \A l \in DOMAIN phases :
                k < l => phases[k].end_index < phases[l].start_index
           /\ n >= 10 =>
                \A first \in 0..(n - 1) : \A last \in (first + 4)..(n - 1) :
                    MaximalRun(PhaseTypes(arg), first, last) =>
                        \E k \in DOMAIN phases :
                            /\ phases[k].start_index = first
                            /\ phases[k].end_index = last

\* two phases with a shorter run, left out, between them
C24_Witness ==
    /\ fn = "segment_phases" /\ out.called
    /\ Len(out.value) = 2
    /\ out.value[2].start_index > out.value[1].end_index + 1
    /\ out.value[1].phase_type # out.value[2].phase_type

\* the batch ids of the dataset as the temporal section keys them
TemporalBatchIds == {BatchId(Self, b) : b \in Range(BatchPartitions(Self))}

(* C25: with a time column the temporal section has, for every numeric      *)
(* variable, an entry for every batch of the dataset: the keys of the       *)
(* variable's batches map are the batch ids of the dataset, a batch with    *)
(* too few valid samples included.                                          *)
C25_EveryBatchKeyed ==
    (status = "analyzed" /\ result.temporal.available) =>
        /\ DOMAIN result.temporal.variables = Range(numeric_cols)
        /\ \A col \in Range(numeric_cols) :
              DOMAIN result.temporal.variables[col].batches = TemporalBatchIds

\* what holds instead: the keys are the ids of the batches with at least 5
\* valid samples of the variable
C25_BatchesWithFiveSamples ==
    (status = "analyzed" /\ result.temporal.available) =>
        /\ DOMAIN result.temporal.variables = Range(numeric_cols)
        /\ \A col \in Range(numeric_cols) :
              DOMAIN result.temporal.variables[col].batches =
                  {BatchId(Self, b) : b \in {c \in Range(BatchPartitions(Self)) :
                                               Len(CleanPairs(Self, col, c)) >= 5}}

\* the ranking of a variable by a metric in batch_comparison, and the best
\* batches global_scores reports for them
RankingOf(col, metric) == result.batch_comparison.variables[col].rankings[metric]
BestOf(col, metric) ==
    {e \in Range(result.global_scores.best_batches) :
        e.variable = col /\ e.metric = metric}
RankedMetrics == {"max_value", "integrated_value"}

\* the best batch of global_scores is the batch ranked 1, and is reported
\* whenever a batch is ranked
BestIsRankedFirst(col, metric) ==
    /\ RankingOf(col, metric) # <<>> => BestOf(col, metric) # {}
    /\ \A e \in BestOf(col, metric) :
          /\ RankingOf(col, metric) # <<>>
          /\ e.best_batch = RankingOf(col, metric)[1].batch_id
          /\ e.value = RankingOf(col, metric)[1].value

(* C26: for every dataset with at least two batches, every variable among   *)
(* the first 10 numeric columns and every metric, the best batch reported   *)
(* in global_scores is the batch ranked 1 for that metric in                *)
(* batch_comparison, with the same value, and a best batch is reported      *)
(* whenever the ranking is non-empty (here for max_value and                *)
(* integrated_value).                                                       *)
C26_BestIsRankedFirst ==
    (status = "analyzed" /\ result.global_scores.available) =>
        /\ result.batch_comparison.available
        /\ \A col \in TrendColumns : \A metric \in RankedMetrics :
              BestIsRankedFirst(col, metric)

\* what holds instead: the two agree on the variables of which no batch has
\* exactly 2 rows with both a time and a value
C26_WithoutTwoSampleBatches ==
    (status = "analyzed" /\ result.global_scores.available) =>
        /\ result.batch_comparison.available
        /\ \A col \in TrendColumns :
              (\A b \in Range(BatchValues(Self)) : Len(GlobalPairs(Self, col, b)) # 2) =>
                  \A metric \in RankedMetrics : BestIsRankedFirst(col, metric)

====
